---- MODULE Spec2Model ----
(***************************************************************************)
(* Dealers Plus: the fuzzy matcher of the Express server (norm, lev,       *)
(* scoreQuery), the listing search GET /api/dealers and the typeahead      *)
(* suggestionsFor, modelled from src/unnamed/part_001 (the server that     *)
(* loads) and src/server/index.js (the earlier server file); the review,   *)
(* registration and password-reset handlers of part_001; and the search    *)
(* box of the client, src/public/app.js.                                   *)
(*                                                                         *)
(* SpecFn calls the matcher's functions directly, Spec serves one request  *)
(* on a store, SpecRun serves a run of requests on the seeded store,       *)
(* SpecClient submits one text in the search box, SpecParse calls          *)
(* parseSearchQuery, SpecAsync interleaves the registration and            *)
(* password-reset handlers at their awaits, SpecReviews runs the review    *)
(* handlers, SpecPaging walks the paged reviews, and SpecDropdown runs the *)
(* events of the search box.                                               *)
(*                                                                         *)
(* A JavaScript value is a record [t, s]: t is its type tag and s, for a   *)
(* string, its sequence of one-character strings.                          *)
(*                                                                         *)
(* dealers, reviews and users are the server's in-memory arrays; uuids is  *)
(* the number of uuid() values drawn so far (the n-th one is modelled as   *)
(* n); args and last are the call or request being served and its outcome; *)
(* log keeps the listing and suggestion responses of a run, and served     *)
(* counts the requests of the run; pending holds the handlers suspended at *)
(* an await, and dd is the client's search box with its dropdown.          *)
(***************************************************************************)
EXTENDS Integers, Sequences, FiniteSets, TLC

VARIABLES dealers, args, last, reviews, users, uuids, log, served, pending, dd

vars ==
  <<dealers, args, last, reviews, users, uuids, log, served, pending, dd>>

(***************************************************************************)
(* Bounds of the model.                                                    *)
(***************************************************************************)
\* longest raw string handed to norm, lev and scoreQuery in SpecFn
MaxLen == 3
\* largest dealer store drawn at start-up in Spec
MaxDealers == 3

(***************************************************************************)
(* JavaScript values.                                                      *)
(***************************************************************************)
Str(cs) == [t |-> "string", s |-> cs]
Undefined == [t |-> "undefined", s |-> <<>>]
Null == [t |-> "null", s |-> <<>>]
\* a non-negative integer number
Num(n) == [t |-> "number", s |-> n]
Bool(b) == [t |-> "boolean", s |-> b]
\* an array of values that are not arrays themselves
Arr(xs) == [t |-> "array", s |-> xs]
\* the plain object {}
Obj == [t |-> "object", s |-> <<>>]

\* ToBoolean: undefined, null, "", 0 and false are falsy; every other string,
\* number and boolean, and every array and object, is truthy
Truthy(v) ==
  CASE v.t = "string" -> v.s # <<>>
    [] v.t = "number" -> v.s # 0
    [] v.t = "boolean" -> v.s
    [] v.t \in {"array", "object"} -> TRUE
    [] OTHER -> FALSE

DigitChars == <<"0", "1", "2", "3", "4", "5", "6", "7", "8", "9">>

\* Number.prototype.toString of a non-negative integer
RECURSIVE DecimalOf(_)
DecimalOf(n) ==
  IF n < 10
    THEN <<DigitChars[n + 1]>>
    ELSE Append(DecimalOf(n \div 10), DigitChars[(n % 10) + 1])

\* String(v) of a value that is not an array
StringOfPrimitive(v) ==
  CASE v.t = "string" -> v.s
    [] v.t = "undefined" -> <<"u", "n", "d", "e", "f", "i", "n", "e", "d">>
    [] v.t = "null" -> <<"n", "u", "l", "l">>
    [] v.t = "number" -> DecimalOf(v.s)
    [] v.t = "boolean" -> IF v.s THEN <<"t", "r", "u", "e">>
                                 ELSE <<"f", "a", "l", "s", "e">>
    [] v.t = "object" ->
         <<"[", "o", "b", "j", "e", "c", "t", " ", "O", "b", "j", "e", "c", "t", "]">>

\* Array.prototype.join(","): undefined and null elements give ""
RECURSIVE joinComma(_)
joinComma(xs) ==
  IF xs = <<>>
    THEN <<>>
    ELSE LET x == IF xs[1].t \in {"undefined", "null"}
                    THEN <<>>
                    ELSE StringOfPrimitive(xs[1])
         IN IF Len(xs) = 1 THEN x ELSE x \o <<",">> \o joinComma(Tail(xs))

\* String(v)
String(v) == IF v.t = "array" THEN joinComma(v.s) ELSE StringOfPrimitive(v)

\* a || b
JsOr(a, b) == IF Truthy(a) THEN a ELSE b

UpperCase ==
  <<"A", "B", "C", "D", "E", "F", "G", "H", "I", "J", "K", "L", "M",
    "N", "O", "P", "Q", "R", "S", "T", "U", "V", "W", "X", "Y", "Z">>
LowerCase ==
  <<"a", "b", "c", "d", "e", "f", "g", "h", "i", "j", "k", "l", "m",
    "n", "o", "p", "q", "r", "s", "t", "u", "v", "w", "x", "y", "z">>
Digits == {"0", "1", "2", "3", "4", "5", "6", "7", "8", "9"}

\* the character class [a-z0-9]
AlphaNum == {LowerCase[i] : i \in 1..Len(LowerCase)} \cup Digits

\* the lower-case letter of each upper-case ASCII letter
LowerOf ==
  [c \in {UpperCase[i] : i \in 1..Len(UpperCase)} |->
    LowerCase[CHOOSE i \in 1..Len(UpperCase) : UpperCase[i] = c]]

\* String.prototype.toLowerCase on one ASCII character
LowerChar(c) == IF c \in DOMAIN LowerOf THEN LowerOf[c] ELSE c

\* String.prototype.toLowerCase
toLowerCase(cs) == [i \in 1..Len(cs) |-> LowerChar(cs[i])]

\* the white space of the search texts
WhiteSpace == {" "}

RECURSIVE trimStart(_)
trimStart(cs) ==
  IF cs # <<>> /\ cs[1] \in WhiteSpace THEN trimStart(Tail(cs)) ELSE cs

RECURSIVE trimEnd(_)
trimEnd(cs) ==
  IF cs # <<>> /\ cs[Len(cs)] \in WhiteSpace
    THEN trimEnd(SubSeq(cs, 1, Len(cs) - 1))
    ELSE cs

\* String.prototype.trim
trim(cs) == trimEnd(trimStart(cs))

KeepAlphaNum(c) == c \in AlphaNum

\* .replace(/[^a-z0-9]/g, "")
StripNonAlphaNum(cs) == SelectSeq(cs, KeepAlphaNum)

(***************************************************************************)
(* The matcher.                                                            *)
(***************************************************************************)
\* norm with the two steps exchanged: strip first, lower-case afterwards
normStripFirst(v) == toLowerCase(StripNonAlphaNum(String(JsOr(v, Str(<<>>)))))

\* function norm(s): the result is the character sequence of a string
norm(v) == StripNonAlphaNum(toLowerCase(String(JsOr(v, Str(<<>>)))))

Min2(x, y) == IF x <= y THEN x ELSE y

Max2(x, y) == IF x >= y THEN x ELSE y

\* Math.min without its third argument (the substitution term of lev)
Min3NoThird(x, y, z) == Min2(x, y)

\* Math.min of three numbers
Min3(x, y, z) == Min2(x, Min2(y, z))

\* the inner loop of lev, for (let j = lo; j <= hi; j++): cur holds
\* m[i][0..lo-1], prev is row i-1 (column k of a row is element k+1). The
\* range is run in two halves, the left one completed before the right one
\* starts, to keep the nesting of the evaluation shallow on long strings
RECURSIVE levCells(_, _, _, _, _, _)
levCells(a, bi, prev, cur, lo, hi) ==
  IF lo > hi
    THEN cur
    ELSE IF lo = hi
      THEN Append(cur, Min3(prev[lo + 1] + 1,
                            cur[lo] + 1,
                            prev[lo] + (IF a[lo] = bi THEN 0 ELSE 1)))
      ELSE LET mid == (lo + hi) \div 2
               left == levCells(a, bi, prev, cur, lo, mid)
           IN CASE Len(left) = mid + 1 ->  \* m[i][0..mid] is filled
                     levCells(a, bi, prev, left, mid + 1, hi)

\* row i of the table, filled left to right from cur = [i]
levRow(a, bi, prev, cur) == levCells(a, bi, prev, cur, Len(cur), Len(a))

\* the outer loop of lev, for (let i = lo; i <= hi; i++), each row started
\* as [i]; prev is row lo-1
RECURSIVE levRowsRange(_, _, _, _, _)
levRowsRange(a, b, lo, hi, prev) ==
  IF lo > hi
    THEN prev
    ELSE IF lo = hi
      THEN levRow(a, b[lo], prev, <<lo>>)
      ELSE LET mid == (lo + hi) \div 2
               row == levRowsRange(a, b, lo, mid, prev)
           IN CASE Len(row) = Len(a) + 1 ->  \* row mid is filled
                     levRowsRange(a, b, mid + 1, hi, row)

\* rows i..b.length of the table
levRows(a, b, i, prev) == levRowsRange(a, b, i, Len(b), prev)

\* lev with row 0 of the table all zeros: characters of a ahead of the match
\* cost nothing
levFreePrefix(va, vb) ==
  LET a == norm(va)
      b == norm(vb)
      row0 == [j \in 1..(Len(a) + 1) |-> 0]
  IN levRows(a, b, 1, row0)[Len(a) + 1]

\* lev with the scorer's short cut: 0 when b contains a
levSubstringZero(va, vb) ==
  LET a == norm(va)
      b == norm(vb)
      row0 == [j \in 1..(Len(a) + 1) |-> j - 1]
  IN IF \E i \in 1..(Len(b) - Len(a) + 1) : SubSeq(b, i, i + Len(a) - 1) = a
       THEN 0
       ELSE levRows(a, b, 1, row0)[Len(a) + 1]

\* function lev(a, b)
lev(va, vb) ==
  LET a == norm(va)
      b == norm(vb)
      row0 == [j \in 1..(Len(a) + 1) |-> j - 1]
  IN levRows(a, b, 1, row0)[Len(a) + 1]

\* String.prototype.includes
includes(text, part) ==
  \E i \in 1..(Len(text) - Len(part) + 1) :
    SubSeq(text, i, i + Len(part) - 1) = part

\* the "incomparable" score of scoreQuery
Sentinel == 999

\* scoreQuery with the substring test ahead of the emptiness test
scoreQuerySubstringFirst(q, text) ==
  LET nq == norm(q)
      nt == norm(text)
  IN IF includes(nt, nq) THEN 0
     ELSE IF nq = <<>> \/ nt = <<>> THEN Sentinel
     ELSE lev(Str(nq), Str(nt))

\* scoreQuery with the substring test the wrong way round
scoreQueryInverted(q, text) ==
  LET nq == norm(q)
      nt == norm(text)
  IN IF nq = <<>> \/ nt = <<>> THEN Sentinel
     ELSE IF includes(nq, nt) THEN 0
     ELSE lev(Str(nq), Str(nt))

\* function scoreQuery(q, text) of part_001
scoreQuery(q, text) ==
  LET nq == norm(q)
      nt == norm(text)
  IN IF nq = <<>> \/ nt = <<>> THEN Sentinel
     ELSE IF includes(nt, nq) THEN 0
     ELSE lev(Str(nq), Str(nt))

\* function scoreQuery(q, text) of server/index.js: its substring test is
\* written `nt.includes nq`, which is not JavaScript, so the file is rejected
\* with a SyntaxError when it is loaded and no call of it returns
scoreQueryIndex(q, text) == "SyntaxError"

(***************************************************************************)
(* Inputs of the direct calls of norm, lev and scoreQuery.                 *)
(***************************************************************************)
\* a lower-case letter, an upper-case letter, a digit and a punctuation mark
RawChars == {"a", "A", "1", "-"}

\* every sequence of at most n members of C
RECURSIVE SeqsUpTo(_, _)
SeqsUpTo(C, n) ==
  IF n = 0
    THEN {<<>>}
    ELSE LET S == SeqsUpTo(C, n - 1)
         IN S \cup {Append(s, c) : s \in S, c \in C}

RawStrs == SeqsUpTo(RawChars, MaxLen)

\* values that are not strings: numbers, booleans, arrays and an object
NonStrings ==
  {Num(0), Num(1), Bool(FALSE), Bool(TRUE), Arr(<<>>), Arr(<<Str(<<"a">>)>>),
   Arr(<<Str(<<"a">>), Null>>), Obj}

\* absent (undefined), null, every string up to MaxLen characters, and the
\* values that are not strings
Inputs == {Undefined, Null} \cup {Str(cs) : cs \in RawStrs} \cup NonStrings

\* the inputs of the calls with two arguments; true and {} go to norm alone
PairInputs == Inputs \ {Bool(TRUE), Obj}

(***************************************************************************)
(* State: the dealer store, the arguments of the call or request being     *)
(* served, and its outcome.                                                *)
(***************************************************************************)
\* const dealers = [...]: the five seeded dealers
SeedDealers ==
  << [id |-> "D001",
      name |-> Str(<<"R", "o", "c", "k", "y", " ", "M", "o", "u", "n", "t", "a", "i", "n", " ", "M", "o", "t", "o", "r", "s">>),
      city |-> Str(<<"D", "e", "n", "v", "e", "r">>),
      state |-> Str(<<"C", "O">>),
      zip |-> Str(<<"8", "0", "2", "0", "2">>),
      brands |-> Arr(<<Str(<<"T", "o", "y", "o", "t", "a">>),
                   Str(<<"H", "o", "n", "d", "a">>)>>),
      phone |-> "(303) 555-1300"],
     [id |-> "D002",
      name |-> Str(<<"H", "u", "d", "s", "o", "n", " ", "R", "i", "v", "e", "r", " ", "A", "u", "t", "o", "s">>),
      city |-> Str(<<"N", "e", "w", " ", "Y", "o", "r", "k">>),
      state |-> Str(<<"N", "Y">>),
      zip |-> Str(<<"1", "0", "0", "0", "1">>),
      brands |-> Arr(<<Str(<<"A", "u", "d", "i">>),
                   Str(<<"B", "M", "W">>),
                   Str(<<"M", "e", "r", "c", "e", "d", "e", "s", "-", "B", "e", "n", "z">>)>>),
      phone |-> "(212) 555-2200"],
     [id |-> "D003",
      name |-> Str(<<"L", "o", "n", "e", " ", "S", "t", "a", "r", " ", "D", "r", "i", "v", "e">>),
      city |-> Str(<<"A", "u", "s", "t", "i", "n">>),
      state |-> Str(<<"T", "X">>),
      zip |-> Str(<<"7", "3", "3", "0", "1">>),
      brands |-> Arr(<<Str(<<"F", "o", "r", "d">>),
                   Str(<<"C", "h", "e", "v", "r", "o", "l", "e", "t">>)>>),
      phone |-> "(512) 555-9988"],
     [id |-> "D004",
      name |-> Str(<<"W", "i", "n", "d", "y", " ", "C", "i", "t", "y", " ", "W", "h", "e", "e", "l", "s">>),
      city |-> Str(<<"C", "h", "i", "c", "a", "g", "o">>),
      state |-> Str(<<"I", "L">>),
      zip |-> Str(<<"6", "0", "6", "0", "1">>),
      brands |-> Arr(<<Str(<<"H", "o", "n", "d", "a">>),
                   Str(<<"T", "o", "y", "o", "t", "a">>),
                   Str(<<"F", "o", "r", "d">>)>>),
      phone |-> "(773) 555-4400"],
     [id |-> "D005",
      name |-> Str(<<"G", "o", "l", "d", "e", "n", " ", "G", "a", "t", "e", " ", "G", "a", "r", "a", "g", "e">>),
      city |-> Str(<<"S", "a", "n", " ", "F", "r", "a", "n", "c", "i", "s", "c", "o">>),
      state |-> Str(<<"C", "A">>),
      zip |-> Str(<<"9", "4", "1", "0", "3">>),
      brands |-> Arr(<<Str(<<"A", "u", "d", "i">>),
                   Str(<<"B", "M", "W">>)>>),
      phone |-> "(415) 555-7777"] >>

\* the ratings of the five sample reviews of seedReviews
SampleRatings == <<5, 4, 4, 5, 4>>

\* the number of uuid() values drawn before seedReviews fills the reviews:
\* two for admin, seven makes, nine models, two for the demo user
UuidsBeforeReviews == 2 + 7 + 9 + 2

\* the id of the demo user: the first uuid drawn after the models'
DemoUserId == 2 + 7 + 9 + 1

\* const users = [admin], and the demo user pushed by seedReviews
SeedUsers ==
  << [id |-> 1, username |-> <<"a", "d", "m", "i", "n">>,
      firstName |-> <<"A", "d", "m", "i", "n">>,
      lastName |-> <<"U", "s", "e", "r">>, role |-> "admin",
      password |-> "Admin@123",
      resetNonce |-> 2],
     [id |-> DemoUserId, username |-> <<"b", "e", "r", "k", "l", "y">>,
      firstName |-> <<"B", "e", "r", "k", "l", "y">>,
      lastName |-> <<"S", "h", "e", "p", "l", "e", "y">>,
      role |-> "user", password |-> "Password1!",
      resetNonce |-> DemoUserId + 1] >>

\* seedReviews(): five reviews per dealer, in the dealers' order; a review is
\* kept with its id, dealer, author, text, rating and time (its purchase and
\* sentiment fields are read by no handler modelled here). The text stands
\* for the sample's non-empty texts; time counts from the server's start, in
\* a unit in which the k-th review of a dealer is k + 1 days old.
seedReviews(ds) ==
  [n \in 1..(5 * Len(ds)) |->
    LET idx == (n - 1) \div 5
        k == (n - 1) % 5
        base == SampleRatings[((idx + k) % 5) + 1]
    IN [id |-> UuidsBeforeReviews + n,
        dealerId |-> ds[idx + 1].id,
        userId |-> DemoUserId,
        review |-> <<"s", "e", "e", "d", "e", "d">>,
        rating |-> Max2(3, Min2(5, base - 1 + (k % 3))),
        time |-> 0 - (k + 1)]]

Boot == [op |-> "boot", args |-> <<>>, ret |-> <<>>, threw |-> ""]

\* bindSearch: the search box when the page has loaded. show is the "show"
\* class of #suggestions, value the input's text, debounce the query of the
\* pending timer (null: none), fetches the suggestion requests in flight,
\* items the rendered suggestions, hash the location hash and changed a
\* hashchange event waiting to be dispatched; typed records that an input
\* event was handled since the last hashchange.
SearchBox ==
  [show |-> FALSE, value |-> <<>>, debounce |-> Null, fetches |-> {},
   items |-> <<>>, hash |-> [path |-> "", params |-> <<>>],
   changed |-> FALSE, typed |-> FALSE]

Return(op, as, ret) == [op |-> op, args |-> as, ret |-> ret, threw |-> ""]

Throw(op, as, err) == [op |-> op, args |-> as, ret |-> <<>>, threw |-> err]

\* no call has been made yet
Idle == last.op = "boot"

\* a call norm(s)
CallNorm ==
  /\ Idle
  /\ Len(args) = 1
  /\ last' = Return("norm", args, norm(args[1]))
  /\ UNCHANGED <<dealers, args, reviews, users, uuids, log, served, pending,
               dd>>

\* a call lev(a, b)
CallLev ==
  /\ Idle
  /\ Len(args) = 2
  /\ last' = Return("lev", args, lev(args[1], args[2]))
  /\ UNCHANGED <<dealers, args, reviews, users, uuids, log, served, pending,
               dd>>

\* a call scoreQuery(q, text) in part_001
CallScoreQuery ==
  /\ Idle
  /\ Len(args) = 2
  /\ last' = Return("scoreQuery", args, scoreQuery(args[1], args[2]))
  /\ UNCHANGED <<dealers, args, reviews, users, uuids, log, served, pending,
               dd>>

\* a call scoreQuery(q, text) in server/index.js
CallScoreQueryIndex ==
  /\ Idle
  /\ Len(args) = 2
  /\ last' = Throw("scoreQueryIndex", args, scoreQueryIndex(args[1], args[2]))
  /\ UNCHANGED <<dealers, args, reviews, users, uuids, log, served, pending,
               dd>>

\* the arguments of the call: one value for norm, two for lev and scoreQuery
InitFn ==
  /\ dealers = SeedDealers
  /\ reviews = seedReviews(dealers)
  /\ users = SeedUsers
  /\ uuids = UuidsBeforeReviews + Len(reviews)
  /\ log = {}
  /\ served = 0
  /\ pending = {}
  /\ dd = SearchBox
  /\ args \in {<<s>> : s \in Inputs} \cup (PairInputs \X PairInputs)
  /\ last = Boot

NextFn ==
  \/ CallNorm
  \/ CallLev
  \/ CallScoreQuery
  \/ CallScoreQueryIndex

\* the matcher's functions called directly, on the seeded store
SpecFn == InitFn /\ [][NextFn]_vars

(***************************************************************************)
(* GET /api/dealers and the typeahead suggestions.                         *)
(***************************************************************************)
\* Math.min over the values of a non-empty argument list
MathMin(S) == CHOOSE x \in S : \A y \in S : x <= y

\* fieldScores without the brands
fieldScoresNoBrands(q, d) ==
  {scoreQuery(q, d.name), scoreQuery(q, d.city),
   scoreQuery(q, d.state), scoreQuery(q, d.zip)}

\* the argument list of Math.min in the listing search: the scores of name,
\* city, state, zip and of every brand
fieldScores(q, d) ==
  {scoreQuery(q, d.name), scoreQuery(q, d.city),
   scoreQuery(q, d.state), scoreQuery(q, d.zip)}
  \cup {scoreQuery(q, d.brands.s[i]) : i \in 1..Len(d.brands.s)}

\* scoreDealer with the number of the dealer's reviews added to the score
scoreDealerPlusReviews(q, d) ==
  [dealer |-> d,
   score |-> MathMin(fieldScores(q, d)) + Len(SelectSeq(reviews,
                                            LAMBDA rv : rv.dealerId = d.id))]

\* d => ({ dealer: d, score: s })
scoreDealer(q, d) == [dealer |-> d, score |-> MathMin(fieldScores(q, d))]

\* insertByScore for a descending sort (b.score - a.score)
insertByScoreDescending(sorted, x) ==
  LET k == Cardinality({i \in 1..Len(sorted) : sorted[i].score >= x.score})
  IN SubSeq(sorted, 1, k) \o <<x>> \o SubSeq(sorted, k + 1, Len(sorted))

\* insertByScore of a sort that is not stable: x goes ahead of its equals
insertByScoreBeforeTies(sorted, x) ==
  LET k == Cardinality({i \in 1..Len(sorted) : sorted[i].score < x.score})
  IN SubSeq(sorted, 1, k) \o <<x>> \o SubSeq(sorted, k + 1, Len(sorted))

\* one step of the stable sort: x goes behind every element that does not
\* compare greater (a.score - b.score <= 0)
insertByScore(sorted, x) ==
  LET k == Cardinality({i \in 1..Len(sorted) : sorted[i].score <= x.score})
  IN SubSeq(sorted, 1, k) \o <<x>> \o SubSeq(sorted, k + 1, Len(sorted))

\* .sort((a, b) => a.score - b.score): Array.prototype.sort is stable
RECURSIVE sortByScore(_)
sortByScore(xs) ==
  IF xs = <<>>
    THEN <<>>
    ELSE insertByScore(sortByScore(SubSeq(xs, 1, Len(xs) - 1)), xs[Len(xs)])

\* list.filter(d => d.state.toLowerCase() === String(state).toLowerCase())
filterState(list, state) ==
  SelectSeq(list, LAMBDA d : toLowerCase(d.state.s) = toLowerCase(String(state)))

\* list.filter(d => d.city.toLowerCase() === String(city).toLowerCase())
filterCity(list, city) ==
  SelectSeq(list, LAMBDA d : toLowerCase(d.city.s) = toLowerCase(String(city)))

\* list.filter(d => d.zip === String(zip))
filterZip(list, zip) ==
  SelectSeq(list, LAMBDA d : d.zip.t = "string" /\ d.zip.s = String(zip))

\* list.filter(d => d.brands.map(b => b.toLowerCase())
\*                     .includes(String(brand).toLowerCase()))
filterBrand(list, brand) ==
  SelectSeq(list, LAMBDA d :
    \E i \in 1..Len(d.brands.s) :
      toLowerCase(d.brands.s[i].s) = toLowerCase(String(brand)))

\* a filter callback throws a TypeError: d.state.toLowerCase() or
\* d.city.toLowerCase() on a value that is not a string, d.brands.map on a
\* value that is not an array, b.toLowerCase() on a brand that is not a string
filtersThrow(ds, query) ==
  LET l0 == ds
  IN IF Truthy(query.state) /\ \E i \in 1..Len(l0) : l0[i].state.t # "string"
       THEN TRUE
       ELSE LET l1 == IF Truthy(query.state) THEN filterState(l0, query.state)
                                              ELSE l0
            IN IF Truthy(query.city)
                  /\ \E i \in 1..Len(l1) : l1[i].city.t # "string"
                 THEN TRUE
                 ELSE LET l2 == IF Truthy(query.city)
                                  THEN filterCity(l1, query.city) ELSE l1
                          l3 == IF Truthy(query.zip)
                                  THEN filterZip(l2, query.zip) ELSE l2
                      IN /\ Truthy(query.brand)
                         /\ \E i \in 1..Len(l3) :
                              \/ l3[i].brands.t # "array"
                              \/ \E k \in 1..Len(l3[i].brands.s) :
                                   l3[i].brands.s[k].t # "string"

\* the ranker's callback throws a TypeError: ...d.brands.map(...) on a value
\* that is not an array
rankerThrows(list) == \E i \in 1..Len(list) : list[i].brands.t # "array"

\* the exact filters of GET /api/dealers, applied in the handler's order
preFilter(ds, query) ==
  LET l0 == ds
      l1 == IF Truthy(query.state) THEN filterState(l0, query.state) ELSE l0
      l2 == IF Truthy(query.city) THEN filterCity(l1, query.city) ELSE l1
      l3 == IF Truthy(query.zip) THEN filterZip(l2, query.zip) ELSE l2
  IN IF Truthy(query.brand) THEN filterBrand(l3, query.brand) ELSE l3

\* the threshold one too high
ThresholdOneMore == 4 + 1

\* a threshold the sentinel does not exceed
ThresholdAtSentinel == Sentinel + 0

\* the score above which the best candidate counts as no match
Threshold == 4

\* reviews.filter(r => r.dealerId === dealerId)
reviewsOf(dealerId) == SelectSeq(reviews, LAMBDA rv : rv.dealerId = dealerId)

\* the sum of the ratings of a list of reviews
RECURSIVE sumRatings(_)
sumRatings(rs) ==
  IF rs = <<>> THEN 0 ELSE rs[1].rating + sumRatings(Tail(rs))

\* function averageRating(dealerId), in tenths: Math.round rounds a half up
averageRating(dealerId) ==
  LET r == reviewsOf(dealerId)
  IN IF r = <<>>
       THEN 0
       ELSE (20 * sumRatings(r) + Len(r)) \div (2 * Len(r))

\* function toDealerDTO(d): the dealer's own fields, its average rating and
\* the number of its reviews
toDealerDTO(d) ==
  [id |-> d.id, name |-> d.name, city |-> d.city, state |-> d.state,
   zip |-> d.zip, brands |-> d.brands, phone |-> d.phone,
   rating |-> averageRating(d.id),
   reviewsCount |-> Len(reviewsOf(d.id))]

\* the live dealers array had the handler sorted it in place by score
dealersSortedInPlace(ds, query) ==
  IF Truthy(query.q) /\ ~rankerThrows(ds)
    THEN LET scored == sortByScore([i \in 1..Len(ds) |->
                                     scoreDealer(query.q, ds[i])])
         IN [i \in 1..Len(ds) |-> scored[i].dealer]
    ELSE ds

\* the live dealers array after the handler of GET /api/dealers has run: the
\* handler filters a copy (dealers.slice()), sorts the array that map
\* returned, and assigns to no record
dealersAfterGetDealers(ds, query) == ds

\* the live dealers array after suggestionsFor(q): the pool is built with
\* map and flatMap, and it is the mapped pool that is sorted
dealersAfterSuggestionsFor(ds, q) == ds

\* getDealers dropping every candidate above the threshold instead of
\* testing the best one
getDealersCutEach(ds, query) ==
  LET list == preFilter(ds, query)
      scored == IF Truthy(query.q)
                  THEN sortByScore([i \in 1..Len(list) |->
                                      scoreDealer(query.q, list[i])])
                  ELSE <<>>
      kept == SelectSeq(scored, LAMBDA x : x.score <= Threshold)
  IN IF Truthy(query.q)
       THEN [dealers |-> [i \in 1..Len(kept) |-> toDealerDTO(kept[i].dealer)],
             scored |-> scored]
       ELSE [dealers |-> [i \in 1..Len(list) |-> toDealerDTO(list[i])],
             scored |-> scored]

\* getDealers scoring for every q that is a string, the empty one included
getDealersScoreEmpty(ds, query) ==
  LET list == preFilter(ds, query)
      scored == IF query.q.t = "string"
                  THEN sortByScore([i \in 1..Len(list) |->
                                      scoreDealer(query.q, list[i])])
                  ELSE <<>>
  IN IF query.q.t = "string"
       THEN IF scored = <<>> \/ scored[1].score > Threshold
              THEN [dealers |-> <<>>, scored |-> scored]
              ELSE [dealers |-> [i \in 1..Len(scored) |->
                                  toDealerDTO(scored[i].dealer)],
                    scored |-> scored]
       ELSE [dealers |-> [i \in 1..Len(list) |-> toDealerDTO(list[i])],
             scored |-> scored]

\* the handler of GET /api/dealers: the response's dealers, with the scored
\* array of the search branch (empty when there is no q)
getDealers(ds, query) ==
  LET list == preFilter(ds, query)
      scored == IF Truthy(query.q)
                  THEN sortByScore([i \in 1..Len(list) |->
                                      scoreDealer(query.q, list[i])])
                  ELSE <<>>
  IN IF Truthy(query.q)
       THEN IF scored = <<>> \/ scored[1].score > Threshold
              THEN [dealers |-> <<>>, scored |-> scored]
              ELSE [dealers |-> [i \in 1..Len(scored) |->
                                  toDealerDTO(scored[i].dealer)],
                    scored |-> scored]
       ELSE [dealers |-> [i \in 1..Len(list) |-> toDealerDTO(list[i])],
             scored |-> scored]

\* the handler of GET /api/dealers ends in an uncaught TypeError
getDealersThrows(ds, query) ==
  \/ filtersThrow(ds, query)
  \/ Truthy(query.q) /\ rankerThrows(preFilter(ds, query))

\* Array.from(new Set(xs)): the first occurrence of each value, in order
RECURSIVE uniqueInOrder(_)
uniqueInOrder(xs) ==
  IF xs = <<>>
    THEN <<>>
    ELSE LET front == uniqueInOrder(SubSeq(xs, 1, Len(xs) - 1))
             x == xs[Len(xs)]
         IN IF \E i \in 1..Len(front) : front[i] = x
              THEN front
              ELSE Append(front, x)

\* dealers.flatMap(d => d.brands): the elements of an array, and a value that
\* is not an array as it is
RECURSIVE flatBrands(_)
flatBrands(ds) ==
  IF ds = <<>>
    THEN <<>>
    ELSE (IF ds[1].brands.t = "array" THEN ds[1].brands.s ELSE <<ds[1].brands>>)
         \o flatBrands(Tail(ds))

\* one entry of the suggestion pool
poolItem(kind, value) == [type |-> kind, kind |-> kind, value |-> value]

\* the pool of suggestionsFor: names, cities, states, zips, distinct brands
suggestionPool(ds) ==
  LET brands == uniqueInOrder(flatBrands(ds))
  IN [i \in 1..Len(ds) |-> poolItem("dealer", ds[i].name)]
     \o [i \in 1..Len(ds) |-> poolItem("city", ds[i].city)]
     \o [i \in 1..Len(ds) |-> poolItem("state", ds[i].state)]
     \o [i \in 1..Len(ds) |-> poolItem("zip", ds[i].zip)]
     \o [i \in 1..Len(brands) |-> poolItem("brand", brands[i])]

\* the number of suggestions returned
SuggestCount == 3

\* suggestionsFor with the listing search's cutoff: nothing is suggested when
\* the best entry scores above the threshold
suggestionsForWithCutoff(ds, q) ==
  IF ~Truthy(q)
    THEN <<>>
    ELSE LET pool == suggestionPool(ds)
             scored == sortByScore([i \in 1..Len(pool) |->
                         [type |-> pool[i].type, kind |-> pool[i].kind,
                          value |-> pool[i].value,
                          score |-> scoreQuery(q, pool[i].value)]])
         IN IF scored = <<>> \/ scored[1].score > Threshold
              THEN <<>>
              ELSE SubSeq(scored, 1, Min2(SuggestCount, Len(scored)))

\* function suggestionsFor(q)
suggestionsFor(ds, q) ==
  IF ~Truthy(q)
    THEN <<>>
    ELSE LET pool == suggestionPool(ds)
             scored == sortByScore([i \in 1..Len(pool) |->
                         [type |-> pool[i].type, kind |-> pool[i].kind,
                          value |-> pool[i].value,
                          score |-> scoreQuery(q, pool[i].value)]])
         IN SubSeq(scored, 1, Min2(SuggestCount, Len(scored)))

\* GET /api/dealers
GetDealers ==
  /\ Idle
  /\ Len(args) = 1
  /\ args[1].route = "/api/dealers"
  /\ last' = IF getDealersThrows(dealers, args[1].query)
               THEN Throw("GET /api/dealers", args, "TypeError")
               ELSE Return("GET /api/dealers", args,
                           getDealers(dealers, args[1].query))
  /\ dealers' = dealersAfterGetDealers(dealers, args[1].query)
  /\ UNCHANGED <<pending, dd, args, reviews, users, uuids, log, served>>

\* GET /api/dealers/search?query=
GetDealersSearch ==
  /\ Idle
  /\ Len(args) = 1
  /\ args[1].route = "/api/dealers/search"
  /\ last' = Return("GET /api/dealers/search", args,
                    [suggestions |-> suggestionsFor(dealers, args[1].query.query)])
  /\ dealers' = dealersAfterSuggestionsFor(dealers, args[1].query.query)
  /\ UNCHANGED <<pending, dd, args, reviews, users, uuids, log, served>>

\* GET /api/search/suggest?q=
GetSearchSuggest ==
  /\ Idle
  /\ Len(args) = 1
  /\ args[1].route = "/api/search/suggest"
  /\ last' = Return("GET /api/search/suggest", args,
                    [suggestions |-> suggestionsFor(dealers, args[1].query.q)])
  /\ dealers' = dealersAfterSuggestionsFor(dealers, args[1].query.q)
  /\ UNCHANGED <<pending, dd, args, reviews, users, uuids, log, served>>

(***************************************************************************)
(* The stores and requests the server is run on.                           *)
(***************************************************************************)
\* the searchable fields of a dealer, from plain character sequences
Fields(n, c, s, z, bs) ==
  [name |-> Str(n), city |-> Str(c), state |-> Str(s), zip |-> Str(z),
   brands |-> Arr([i \in 1..Len(bs) |-> Str(bs[i])])]

\* dealers that differ in which field matches a query best, and one whose
\* fields all normalize to the empty string
SampleFields ==
  { Fields(<<"a">>, <<"a">>, <<"a">>, <<"a">>, <<>>),
    Fields(<<"a", "b", "b", "b", "b">>, <<"a">>, <<"a">>, <<"a">>, <<>>),
    Fields(<<"a">>, <<"a">>, <<"B">>, <<"a">>, <<>>),
    Fields(<<"a">>, <<"a">>, <<"a">>, <<"b">>, <<>>),
    Fields(<<"a">>, <<"b">>, <<"a">>, <<"a">>, << <<"a">>, <<"B", "-", "b">> >>),
    Fields(<<"-">>, <<"-">>, <<"-">>, <<"-">>, <<>>) }

\* the ids of the store's records, by position
DealerIds == <<"D001", "D002", "D003", "D004", "D005", "D006">>

\* a store: the records get their id from their position
storeOf(fs) ==
  [i \in 1..Len(fs) |->
    [id |-> DealerIds[i], name |-> fs[i].name, city |-> fs[i].city,
     state |-> fs[i].state, zip |-> fs[i].zip, brands |-> fs[i].brands,
     phone |-> ""]]

\* every store of at most MaxDealers sample dealers
Stores == {storeOf(fs) : fs \in SeqsUpTo(SampleFields, MaxDealers)}

\* req.query of GET /api/dealers
listingQuery(state, city, zip, brand, q) ==
  [state |-> state, city |-> city, zip |-> zip, brand |-> brand, q |-> q]

\* the free-text queries: absent, empty, one that normalizes to the empty
\* string, and three texts
QueryValues ==
  {Undefined, Str(<<>>), Str(<<"-">>), Str(<<"a">>), Str(<<"B", "b">>),
   Str(<<"b", "b", "b", "b", "b">>)}

Requests ==
  {[route |-> "/api/dealers", query |-> listingQuery(s, c, z, b, q)] :
     s \in {Undefined, Str(<<"b">>)}, c \in {Undefined, Str(<<"B">>)},
     z \in {Undefined, Str(<<"b">>)}, b \in {Undefined, Str(<<"A">>)},
     q \in QueryValues}
  \cup {[route |-> "/api/dealers/search", query |-> [query |-> q]] :
          q \in QueryValues}
  \cup {[route |-> "/api/search/suggest", query |-> [q |-> q]] :
          q \in QueryValues}

\* one-dealer stores in which one searchable field is absent or null
SparseFields ==
  LET a == Str(<<"a">>)
      full == [name |-> a, city |-> a, state |-> a, zip |-> a,
               brands |-> Arr(<<a>>)]
  IN {[full EXCEPT !.name = Undefined], [full EXCEPT !.city = Null],
      [full EXCEPT !.state = Undefined], [full EXCEPT !.zip = Null],
      [full EXCEPT !.brands = Undefined], [full EXCEPT !.brands = Null]}

SparseStores == {storeOf(<<f>>) : f \in SparseFields}

\* a query of more characters than the sentinel's value
LongQuery == Str([i \in 1..(Sentinel + 1) |-> "b"])

LongRequests ==
  {[route |-> "/api/dealers",
    query |-> listingQuery(Undefined, Undefined, Undefined, Undefined,
                           LongQuery)],
   [route |-> "/api/search/suggest", query |-> [q |-> LongQuery]]}

\* the queries put to the seeded store
SeedQueries ==
  {Str(<<"D", "e", "n", "v", "r">>), Str(<<"T", "o", "y", "o", "t", "a">>),
   Str(<<"a", "u", "s">>)}

SeedRequests ==
  {[route |-> "/api/dealers",
    query |-> listingQuery(s, Undefined, Undefined, Undefined, q)] :
     s \in {Undefined, Str(<<"c", "o">>)}, q \in SeedQueries}
  \cup {[route |-> "/api/search/suggest", query |-> [q |-> q]] :
          q \in SeedQueries}

\* the server after start-up, holding the seeded store, a sample store or a
\* sparse store, and the request it is about to serve
Init ==
  /\ \/ dealers \in Stores /\ args \in {<<r>> : r \in Requests}
     \/ dealers = SeedDealers /\ args \in {<<r>> : r \in SeedRequests}
     \/ dealers \in SparseStores
        /\ args \in {<<r>> : r \in Requests \cup LongRequests}
  /\ last = Boot
  /\ reviews = seedReviews(dealers)
  /\ users = SeedUsers
  /\ uuids = UuidsBeforeReviews + Len(reviews)
  /\ log = {}
  /\ served = 0
  /\ pending = {}
  /\ dd = SearchBox

Next ==
  \/ GetDealers
  \/ GetDealersSearch
  \/ GetSearchSuggest

Spec == Init /\ [][Next]_vars

(***************************************************************************)
(* A run of the server: listing and suggestion requests interleaved with   *)
(* review creation, edit and deletion, registrations and password resets.  *)
(***************************************************************************)
\* the number of requests of a run
MaxRequests == 3

\* the listing and suggestion requests put during a run
RunRequests ==
  {[route |-> "/api/dealers",
    query |-> listingQuery(Undefined, Undefined, Undefined, Undefined,
                           Str(<<"c", "o">>))],
   [route |-> "/api/dealers/search", query |-> [query |-> Str(<<"n", "y">>)]],
   [route |-> "/api/search/suggest", query |-> [q |-> Str(<<"n", "y">>)]]}

\* a response with a status code and no body the model reads
Status(op, req, code) == Return(op, <<req>>, [status |-> code])

\* GET /api/dealers during a run
RunGetDealers(r) ==
  /\ served < MaxRequests
  /\ r.route = "/api/dealers"
  /\ last' = IF getDealersThrows(dealers, r.query)
               THEN Throw("GET /api/dealers", <<r>>, "TypeError")
               ELSE Return("GET /api/dealers", <<r>>,
                           getDealers(dealers, r.query))
  /\ dealers' = dealersAfterGetDealers(dealers, r.query)
  /\ args' = <<r>>
  /\ log' = log \cup {[req |-> r, ret |-> last'.ret]}
  /\ served' = served + 1
  /\ UNCHANGED <<pending, dd, reviews, users, uuids>>

\* GET /api/dealers/search?query= during a run
RunGetDealersSearch(r) ==
  /\ served < MaxRequests
  /\ r.route = "/api/dealers/search"
  /\ last' = Return("GET /api/dealers/search", <<r>>,
                    [suggestions |-> suggestionsFor(dealers, r.query.query)])
  /\ dealers' = dealersAfterSuggestionsFor(dealers, r.query.query)
  /\ args' = <<r>>
  /\ log' = log \cup {[req |-> r, ret |-> last'.ret]}
  /\ served' = served + 1
  /\ UNCHANGED <<pending, dd, reviews, users, uuids>>

\* GET /api/search/suggest?q= during a run
RunGetSearchSuggest(r) ==
  /\ served < MaxRequests
  /\ r.route = "/api/search/suggest"
  /\ last' = Return("GET /api/search/suggest", <<r>>,
                    [suggestions |-> suggestionsFor(dealers, r.query.q)])
  /\ dealers' = dealersAfterSuggestionsFor(dealers, r.query.q)
  /\ args' = <<r>>
  /\ log' = log \cup {[req |-> r, ret |-> last'.ret]}
  /\ served' = served + 1
  /\ UNCHANGED <<pending, dd, reviews, users, uuids>>

\* the positions of the user with this id, of the review with this id
UserAt(id) == {i \in 1..Len(users) : users[i].id = id}
ReviewAt(id) == {i \in 1..Len(reviews) : reviews[i].id = id}

\* a JSON response with its status and its error text ("": none)
Reply(op, req, code, error) ==
  Return(op, <<req>>, [status |-> code, error |-> error])

\* the value NaN (its type tag keeps it apart from the integers)
NaN == [t |-> "NaN", s |-> 0]

\* the value of a decimal numeral
RECURSIVE ParseDecimal(_)
ParseDecimal(cs) ==
  IF cs = <<>>
    THEN 0
    ELSE 10 * ParseDecimal(SubSeq(cs, 1, Len(cs) - 1))
           + (CHOOSE d \in 0..9 : DigitChars[d + 1] = cs[Len(cs)])

\* Number(v) for the values a JSON body carries: a string of digits is its
\* value, a blank string 0, any other string NaN (signs, fractions and
\* exponents are not drawn)
Number(v) ==
  CASE v.t = "number" -> v
    [] v.t = "undefined" -> NaN
    [] v.t = "null" -> Num(0)
    [] v.t = "boolean" -> Num(IF v.s THEN 1 ELSE 0)
    [] v.t = "string" ->
         IF trim(v.s) = <<>>
           THEN Num(0)
           ELSE IF \A i \in 1..Len(trim(v.s)) : trim(v.s)[i] \in Digits
             THEN Num(ParseDecimal(trim(v.s)))
             ELSE NaN
    [] OTHER -> NaN

\* Math.max(1, Math.min(5, Number(rating) || 0))
clampRating(rating) == Max2(1, Min2(5, JsOr(Number(rating), Num(0)).s))

\* new Date(): no earlier than any time in the store; r.tick is 0 when the
\* request is served in the millisecond of the latest time stamp
now(rs, tick) ==
  LET latest == CHOOSE t \in {0} \cup {rs[i].time : i \in 1..Len(rs)} :
                  \A i \in 1..Len(rs) : rs[i].time <= t
  IN latest + tick

\* PUT: if (typeof review === "string") rv.review = review.trim()
putText(old, review) == IF review.t = "string" THEN trim(review.s) ELSE old

\* PUT: if (rating != null) rv.rating = Math.max(1, Math.min(5, ...))
putRating(old, rating) ==
  IF rating.t \in {"undefined", "null"} THEN old ELSE clampRating(rating)

\* POST /api/dealers/:id/reviews; r.sub is the subject of the session cookie
\* (0: no valid cookie), r.id the dealer, r.review and r.rating the body
PostReview(r) ==
  /\ served < MaxRequests
  /\ args' = <<r>>
  /\ served' = served + 1
  /\ UNCHANGED <<dealers, users, log, pending, dd>>
  /\ IF r.sub = 0
       THEN /\ last' = Reply("POST /api/dealers/:id/reviews", r, 401,
                             "Unauthorized")
            /\ UNCHANGED <<reviews, uuids>>
       ELSE IF \A i \in 1..Len(dealers) : dealers[i].id # r.id
         THEN /\ last' = Reply("POST /api/dealers/:id/reviews", r, 404,
                               "Not found")
              /\ UNCHANGED <<reviews, uuids>>
       ELSE IF UserAt(r.sub) = {}
         THEN /\ last' = Reply("POST /api/dealers/:id/reviews", r, 401,
                               "Unauthorized")
              /\ UNCHANGED <<reviews, uuids>>
         ELSE LET rv == [id |-> uuids + 1, dealerId |-> r.id,
                         userId |-> r.sub,
                         review |-> trim(String(JsOr(r.review, Str(<<>>)))),
                         rating |-> clampRating(r.rating),
                         time |-> now(reviews, r.tick)]
              IN /\ uuids' = uuids + 1
                 /\ IF rv.review = <<>>
                      THEN /\ last' = Reply("POST /api/dealers/:id/reviews",
                                            r, 400, "Review text required")
                           /\ UNCHANGED reviews
                      ELSE IF rv.rating = 0
                        THEN /\ last' = Reply("POST /api/dealers/:id/reviews",
                                              r, 400, "Rating required")
                             /\ UNCHANGED reviews
                        ELSE /\ reviews' = Append(reviews, rv)
                             /\ last' = Reply("POST /api/dealers/:id/reviews",
                                              r, 200, "")

\* PUT /api/reviews/:id
PutReview(r) ==
  /\ served < MaxRequests
  /\ args' = <<r>>
  /\ served' = served + 1
  /\ UNCHANGED <<dealers, users, uuids, log, pending, dd>>
  /\ IF r.sub = 0
       THEN /\ last' = Reply("PUT /api/reviews/:id", r, 401, "Unauthorized")
            /\ UNCHANGED reviews
       ELSE IF ReviewAt(r.id) = {}
         THEN /\ last' = Reply("PUT /api/reviews/:id", r, 404, "Not found")
              /\ UNCHANGED reviews
         ELSE LET i == CHOOSE i \in ReviewAt(r.id) : TRUE
              IN IF reviews[i].userId # r.sub
                   THEN /\ last' = Reply("PUT /api/reviews/:id", r, 403,
                                         "Forbidden")
                        /\ UNCHANGED reviews
                   ELSE /\ reviews' =
                             [reviews EXCEPT
                                ![i].review = putText(@, r.review),
                                ![i].rating = putRating(@, r.rating),
                                ![i].time = now(reviews, r.tick)]
                        /\ last' = Reply("PUT /api/reviews/:id", r, 200, "")

\* the DELETE handler's test passed by every session
mayDeleteAnyone(rv, user) == rv.userId = rv.userId

\* rv.userId === req.user.sub || req.user.role === "admin"
mayDelete(rv, user) == rv.userId = user.sub \/ user.role = "admin"

\* DELETE /api/reviews/:id; r.role is the role in the session cookie
DeleteReview(r) ==
  /\ served < MaxRequests
  /\ args' = <<r>>
  /\ served' = served + 1
  /\ UNCHANGED <<dealers, users, uuids, log, pending, dd>>
  /\ IF r.sub = 0
       THEN /\ last' = Reply("DELETE /api/reviews/:id", r, 401,
                             "Unauthorized")
            /\ UNCHANGED reviews
       ELSE IF ReviewAt(r.id) = {}
         THEN /\ last' = Reply("DELETE /api/reviews/:id", r, 404, "Not found")
              /\ UNCHANGED reviews
         ELSE LET idx == CHOOSE i \in ReviewAt(r.id) : TRUE
              IN IF ~mayDelete(reviews[idx], r)
                   THEN /\ last' = Reply("DELETE /api/reviews/:id", r, 403,
                                         "Forbidden")
                        /\ UNCHANGED reviews
                   ELSE /\ reviews' = SubSeq(reviews, 1, idx - 1)
                                        \o SubSeq(reviews, idx + 1, Len(reviews))
                        /\ last' = Reply("DELETE /api/reviews/:id", r, 200, "")

\* !username || !firstName || !lastName || !password
missingFields(r) ==
  r.username = <<>> \/ r.firstName = <<>> \/ r.lastName = <<>>
    \/ r.password = ""

\* users.find(u => u.username.toLowerCase() === username.toLowerCase())
usernameExists(us, username) ==
  \E i \in 1..Len(us) :
    toLowerCase(us[i].username) = toLowerCase(username)

\* POST /api/auth/register, served with no other handler running between its
\* await and its end
Register(r) ==
  /\ served < MaxRequests
  /\ args' = <<r>>
  /\ served' = served + 1
  /\ UNCHANGED <<pending, dd, dealers, reviews, log>>
  /\ IF missingFields(r)
       THEN /\ last' = Status("POST /api/auth/register", r, 400)
            /\ UNCHANGED <<users, uuids>>
       ELSE IF usernameExists(users, r.username)
         THEN /\ last' = Status("POST /api/auth/register", r, 400)
              /\ UNCHANGED <<users, uuids>>
         ELSE /\ users' = Append(users,
                             [id |-> uuids + 1, username |-> r.username,
                              firstName |-> r.firstName,
                              lastName |-> r.lastName, role |-> "user",
                              password |-> r.password,
                              resetNonce |-> uuids + 2])
              /\ uuids' = uuids + 2
              /\ last' = Status("POST /api/auth/register", r, 200)

\* POST /api/auth/reset, served with no other handler running between its
\* await and its end; r.token is the payload of a token signed by this server
\* (kind "none": no token sent)
ResetPassword(r) ==
  /\ served < MaxRequests
  /\ args' = <<r>>
  /\ served' = served + 1
  /\ UNCHANGED <<pending, dd, dealers, reviews, log>>
  /\ IF r.token.kind = "none"
       THEN /\ last' = Status("POST /api/auth/reset", r, 400)
            /\ UNCHANGED <<users, uuids>>
       ELSE IF r.token.kind # "reset"
         THEN /\ last' = Status("POST /api/auth/reset", r, 401)
              /\ UNCHANGED <<users, uuids>>
         ELSE IF UserAt(r.token.sub) = {}
           THEN /\ last' = Status("POST /api/auth/reset", r, 404)
                /\ UNCHANGED <<users, uuids>>
           ELSE LET i == CHOOSE i \in UserAt(r.token.sub) : TRUE
                IN IF r.token.nonce # users[i].resetNonce
                     THEN /\ last' = Status("POST /api/auth/reset", r, 401)
                          /\ UNCHANGED <<users, uuids>>
                     ELSE /\ users' = [users EXCEPT
                                         ![i].password = r.password,
                                         ![i].resetNonce = uuids + 1]
                          /\ uuids' = uuids + 1
                          /\ last' = Status("POST /api/auth/reset", r, 200)

\* the reviews a run edits or deletes: the first seeded one and those posted
\* during the run
ReviewTargets ==
  {reviews[i].id : i \in {j \in 1..Len(reviews) :
                            j = 1 \/ j > 5 * Len(dealers)}}

\* the session cookies of a run: none, the admin's and the demo user's
Sessions ==
  {[sub |-> 0, role |-> "none"], [sub |-> 1, role |-> "admin"],
   [sub |-> DemoUserId, role |-> "user"]}

\* a body with a text and a rating
Good == <<"g", "o", "o", "d">>

PostRequests ==
  {[id |-> "D001", sub |-> s.sub, review |-> Str(Good), rating |-> Num(1),
    tick |-> 1] : s \in Sessions}
  \cup {[id |-> "D009", sub |-> DemoUserId, review |-> Str(Good),
         rating |-> Num(1), tick |-> 1],
        [id |-> "D001", sub |-> DemoUserId, review |-> Str(<<>>),
         rating |-> Num(1), tick |-> 1]}

\* by the admin and by the demo user on the targets, by the demo user on a
\* review that does not exist, and without a session
PutRequests ==
  {[id |-> i, sub |-> s, review |-> Undefined, rating |-> Num(1),
    tick |-> 1] : i \in ReviewTargets, s \in {1, DemoUserId}}
  \cup {[id |-> 0, sub |-> s, review |-> Undefined, rating |-> Num(1),
         tick |-> 1] : s \in {0, DemoUserId}}

\* by the demo user on the targets, by the admin on the reviews posted during
\* the run, and without a session; a registered user in the first one's place
DeleteRequests ==
  {[id |-> i, sub |-> DemoUserId, role |-> "user"] : i \in ReviewTargets \cup {0}}
  \cup {[id |-> i, sub |-> 1, role |-> "admin"] :
          i \in ReviewTargets \ {reviews[1].id}}
  \cup {[id |-> 0, sub |-> 0, role |-> "none"]}
  \cup {[id |-> reviews[1].id, sub |-> users[i].id, role |-> "user"] :
          i \in 3..Len(users)}

RegisterRequests ==
  {[username |-> u, firstName |-> <<"N", "e", "w">>, lastName |-> <<"U", "s", "e", "r">>,
    password |-> pw] :
     u \in {<<"A", "d", "m", "i", "n">>, <<"n", "e", "w">>},
     pw \in {"Secret1!"}}
  \cup {[username |-> <<"n", "e", "w">>, firstName |-> <<"N", "e", "w">>,
         lastName |-> <<"U", "s", "e", "r">>, password |-> ""]}

\* reset tokens from /api/auth/forgot-verify for the demo user, fresh and
\* used, a session token, and none
ResetRequests ==
  {[token |-> t, password |-> "Changed1!"] :
     t \in {[kind |-> "none", sub |-> 0, nonce |-> 0],
            [kind |-> "session", sub |-> DemoUserId, nonce |-> 0],
            [kind |-> "reset", sub |-> 0, nonce |-> 0],
            [kind |-> "reset", sub |-> DemoUserId, nonce |-> DemoUserId + 1]}}

\* the server after start-up with the seeded store
InitRun ==
  /\ dealers = SeedDealers
  /\ reviews = seedReviews(dealers)
  /\ users = SeedUsers
  /\ uuids = UuidsBeforeReviews + Len(reviews)
  /\ args = <<>>
  /\ last = Boot
  /\ log = {}
  /\ served = 0
  /\ pending = {}
  /\ dd = SearchBox

NextRun ==
  \/ \E r \in RunRequests : RunGetDealers(r)
  \/ \E r \in RunRequests : RunGetDealersSearch(r)
  \/ \E r \in RunRequests : RunGetSearchSuggest(r)
  \/ \E r \in PostRequests : PostReview(r)
  \/ \E r \in PutRequests : PutReview(r)
  \/ \E r \in DeleteRequests : DeleteReview(r)
  \/ \E r \in RegisterRequests : Register(r)
  \/ \E r \in ResetRequests : ResetPassword(r)

SpecRun == InitRun /\ [][NextRun]_vars

(***************************************************************************)
(* Concurrent requests. An async handler runs to its await, is suspended   *)
(* while bcrypt hashes the password, and resumes afterwards; the handlers  *)
(* of other requests run in between. pending holds the suspended handlers  *)
(* with the locals they resume with.                                       *)
(***************************************************************************)
\* a handler that has reached its await
Suspended(op, req) == Return(op, <<req>>, [status |-> 0, error |-> "await"])

\* no reset token
NoToken == [kind |-> "none", sub |-> 0, nonce |-> 0]

\* what a run keeps of the response to its n-th request
Answer(n, op, req, code, token) ==
  [n |-> n, op |-> op, req |-> req, status |-> code, token |-> token]

\* POST /api/auth/register up to `await bcrypt.hash(password, 10)`: the user
\* object under construction has its id
RegisterBegin(r) ==
  /\ served < MaxRequests
  /\ args' = <<r>>
  /\ served' = served + 1
  /\ UNCHANGED <<dealers, reviews, users, dd>>
  /\ IF missingFields(r)
       THEN /\ last' = Reply("POST /api/auth/register", r, 400,
                             "Missing fields")
            /\ log' = log \cup {Answer(served', "register", r, 400, NoToken)}
            /\ UNCHANGED <<uuids, pending>>
       ELSE IF usernameExists(users, r.username)
         THEN /\ last' = Reply("POST /api/auth/register", r, 400,
                               "Username already exists")
              /\ log' = log
                          \cup {Answer(served', "register", r, 400, NoToken)}
              /\ UNCHANGED <<uuids, pending>>
         ELSE /\ pending' = pending \cup {[n |-> served', op |-> "register",
                                           req |-> r, id |-> uuids + 1,
                                           user |-> 0]}
              /\ uuids' = uuids + 1
              /\ last' = Suspended("POST /api/auth/register", r)
              /\ UNCHANGED log

\* POST /api/auth/register from the await on: resetNonce, users.push(user)
\* and the response
RegisterEnd(p) ==
  /\ p.op = "register"
  /\ users' = Append(users,
                     [id |-> p.id, username |-> p.req.username,
                      firstName |-> p.req.firstName,
                      lastName |-> p.req.lastName, role |-> "user",
                      password |-> p.req.password,
                      resetNonce |-> uuids + 1])
  /\ uuids' = uuids + 1
  /\ pending' = pending \ {p}
  /\ args' = <<p.req>>
  /\ last' = Reply("POST /api/auth/register", p.req, 200, "")
  /\ log' = log \cup {Answer(p.n, "register", p.req, 200, NoToken)}
  /\ UNCHANGED <<dealers, reviews, served, dd>>

\* function signResetToken(user): the payload of the token
signResetToken(user) ==
  [kind |-> "reset", sub |-> user.id, nonce |-> user.resetNonce]

\* the users /api/auth/forgot-verify compares the body with
verifiedUsers(us, r) ==
  {i \in 1..Len(us) :
     /\ toLowerCase(us[i].username)
          = toLowerCase(String(JsOr(r.username, Str(<<>>))))
     /\ toLowerCase(us[i].firstName)
          = toLowerCase(String(JsOr(r.firstName, Str(<<>>))))
     /\ toLowerCase(us[i].lastName)
          = toLowerCase(String(JsOr(r.lastName, Str(<<>>))))}

\* POST /api/auth/forgot-verify
ForgotVerify(r) ==
  /\ served < MaxRequests
  /\ args' = <<r>>
  /\ served' = served + 1
  /\ UNCHANGED <<dealers, reviews, users, uuids, pending, dd>>
  /\ IF verifiedUsers(users, r) = {}
       THEN /\ last' = Reply("POST /api/auth/forgot-verify", r, 401,
                             "Invalid Credentials")
            /\ log' = log \cup {Answer(served', "forgot-verify", r, 401,
                                       NoToken)}
       ELSE LET i == CHOOSE i \in verifiedUsers(users, r) :
                       \A j \in verifiedUsers(users, r) : i <= j
            IN /\ last' = Reply("POST /api/auth/forgot-verify", r, 200, "")
               /\ log' = log \cup {Answer(served', "forgot-verify", r, 200,
                                          signResetToken(users[i]))}

\* POST /api/auth/reset up to `await bcrypt.hash(password, 10)`; the body
\* carries a password and no confirm
ResetBegin(r) ==
  /\ served < MaxRequests
  /\ args' = <<r>>
  /\ served' = served + 1
  /\ UNCHANGED <<dealers, reviews, users, uuids, dd>>
  /\ IF r.token.kind = "none"
       THEN /\ last' = Reply("POST /api/auth/reset", r, 400, "Missing token")
            /\ log' = log \cup {Answer(served', "reset", r, 400, NoToken)}
            /\ UNCHANGED pending
       ELSE IF r.token.kind # "reset"
         THEN /\ last' = Reply("POST /api/auth/reset", r, 401,
                               "Invalid Credentials")
              /\ log' = log \cup {Answer(served', "reset", r, 401, NoToken)}
              /\ UNCHANGED pending
         ELSE IF UserAt(r.token.sub) = {}
           THEN /\ last' = Reply("POST /api/auth/reset", r, 404, "Not found")
                /\ log' = log \cup {Answer(served', "reset", r, 404, NoToken)}
                /\ UNCHANGED pending
           ELSE LET i == CHOOSE i \in UserAt(r.token.sub) : TRUE
                IN IF r.token.nonce # users[i].resetNonce
                     THEN /\ last' = Reply("POST /api/auth/reset", r, 401,
                                           "Invalid Credentials")
                          /\ log' = log \cup {Answer(served', "reset", r, 401,
                                                     NoToken)}
                          /\ UNCHANGED pending
                     ELSE /\ pending' =
                               pending \cup {[n |-> served', op |-> "reset",
                                              req |-> r, id |-> 0,
                                              user |-> i]}
                          /\ last' = Suspended("POST /api/auth/reset", r)
                          /\ UNCHANGED log

\* POST /api/auth/reset from the await on: the hash is stored, the nonce is
\* rotated and the response sent
ResetEnd(p) ==
  /\ p.op = "reset"
  /\ users' = [users EXCEPT ![p.user].password = p.req.password,
                            ![p.user].resetNonce = uuids + 1]
  /\ uuids' = uuids + 1
  /\ pending' = pending \ {p}
  /\ args' = <<p.req>>
  /\ last' = Reply("POST /api/auth/reset", p.req, 200, "")
  /\ log' = log \cup {Answer(p.n, "reset", p.req, 200, NoToken)}
  /\ UNCHANGED <<dealers, reviews, served, dd>>

\* registrations of one new name in two spellings, of the admin's name and
\* without a password
AsyncRegisterRequests ==
  RegisterRequests
  \cup {[username |-> <<"N", "e", "w">>, firstName |-> <<"N", "e", "w">>,
         lastName |-> <<"U", "s", "e", "r">>, password |-> "Secret2!"]}

\* the demo user's identity, as typed, and one with a wrong last name
ForgotRequests ==
  {[username |-> Str(<<"B", "e", "r", "k", "l", "y">>),
    firstName |-> Str(<<"b", "e", "r", "k", "l", "y">>),
    lastName |-> Str(l)] :
     l \in {<<"S", "h", "e", "p", "l", "e", "y">>, <<"S", "h", "e", "p">>}}

\* the reset tokens this server has sent out
IssuedTokens ==
  {x.token : x \in {y \in log : y.op = "forgot-verify" /\ y.status = 200}}

\* resets with the tokens sent out, with a session token and without one
AsyncResetRequests ==
  {[token |-> t, password |-> pw] :
     t \in IssuedTokens
             \cup {NoToken, [kind |-> "session", sub |-> DemoUserId,
                             nonce |-> 0]},
     pw \in {"Changed1!", "Changed2!"}}

InitAsync == InitRun

NextAsync ==
  \/ \E r \in AsyncRegisterRequests : RegisterBegin(r)
  \/ \E p \in pending : RegisterEnd(p)
  \/ \E r \in ForgotRequests : ForgotVerify(r)
  \/ \E r \in AsyncResetRequests : ResetBegin(r)
  \/ \E p \in pending : ResetEnd(p)

SpecAsync == InitAsync /\ [][NextAsync]_vars

(***************************************************************************)
(* The review handlers with the bodies a client can send, after one        *)
(* registration at most.                                                   *)
(***************************************************************************)
\* the session cookies: none, the admin's, the demo user's and those of the
\* users registered during the run
ReviewSessions ==
  Sessions \cup {[sub |-> users[i].id, role |-> users[i].role] :
                   i \in 3..Len(users)}

\* the ids of the first seeded review, of the reviews posted during the run,
\* and of no review
ReviewIds == ReviewTargets \cup {0}

\* on the first dealer by the demo user: texts that are absent, blank and
\* present, ratings that are absent, zero, not numeric, numeric and too
\* large; by the other sessions a body with a text and a rating
ReviewPostRequests ==
  {[id |-> "D001", sub |-> DemoUserId, review |-> t, rating |-> Num(4),
    tick |-> 1] : t \in {Undefined, Str(<<" ">>)}}
  \cup {[id |-> "D001", sub |-> DemoUserId, review |-> Str(Good),
         rating |-> n, tick |-> 1] :
          n \in {Undefined, Num(0), Str(<<"x">>), Str(<<"4">>), Num(9)}}
  \cup {[id |-> "D001", sub |-> x.sub, review |-> Str(Good),
         rating |-> Num(4), tick |-> 1] : x \in ReviewSessions}

\* bodies with a rating, with a blank text, and with a padded text
ReviewPutRequests ==
  {[id |-> i, sub |-> x.sub, review |-> b[1], rating |-> b[2], tick |-> 1] :
     i \in ReviewIds, x \in ReviewSessions,
     b \in {<<Undefined, Num(2)>>, <<Str(<<" ">>), Undefined>>,
            <<Str(<<" ", "o", "k", " ">>), Null>>}}

ReviewDeleteRequests ==
  {[id |-> i, sub |-> x.sub, role |-> x.role] :
     i \in ReviewIds, x \in ReviewSessions}

NewUserRequests ==
  {r \in RegisterRequests : ~missingFields(r) /\ r.username = <<"n", "e", "w">>}

InitReviews == InitRun

NextReviews ==
  \/ \E r \in ReviewPostRequests : PostReview(r)
  \/ \E r \in ReviewPutRequests : PutReview(r)
  \/ \E r \in ReviewDeleteRequests : DeleteReview(r)
  \/ \E r \in NewUserRequests : Register(r)

SpecReviews == InitReviews /\ [][NextReviews]_vars

(***************************************************************************)
(* Paged reviews: GET /api/dealers/:id/reviews and the walk of the         *)
(* client's detail view through its pages.                                 *)
(***************************************************************************)
\* the longest prefix of decimal digits
RECURSIVE digitPrefix(_)
digitPrefix(cs) ==
  IF cs # <<>> /\ cs[1] \in Digits
    THEN <<cs[1]>> \o digitPrefix(Tail(cs))
    ELSE <<>>

\* parseInt(cs, 10): an optional sign and the digits that follow; NaN when
\* there is none
parseInt(cs) ==
  LET t == trimStart(cs)
      signed == t # <<>> /\ t[1] \in {"-", "+"}
      ds == digitPrefix(IF signed THEN Tail(t) ELSE t)
  IN IF ds = <<>>
       THEN NaN
       ELSE IF signed /\ t[1] = "-"
         THEN Num(0 - ParseDecimal(ds))
         ELSE Num(ParseDecimal(ds))

\* Math.max and Math.min of two numbers: NaN if either is NaN
maxNumber(x, y) == IF NaN \in {x, y} THEN NaN ELSE Num(Max2(x.s, y.s))
minNumber(x, y) == IF NaN \in {x, y} THEN NaN ELSE Num(Min2(x.s, y.s))

\* one step of the stable sort: x goes behind every element that is not
\* older (new Date(b.time) - new Date(a.time) <= 0)
insertByTime(sorted, x) ==
  LET k == Cardinality({i \in 1..Len(sorted) : sorted[i].time >= x.time})
  IN SubSeq(sorted, 1, k) \o <<x>> \o SubSeq(sorted, k + 1, Len(sorted))

\* .sort((a, b) => new Date(b.time) - new Date(a.time))
RECURSIVE sortByTime(_)
sortByTime(xs) ==
  IF xs = <<>>
    THEN <<>>
    ELSE insertByTime(sortByTime(SubSeq(xs, 1, Len(xs) - 1)), xs[Len(xs)])

\* start + limit <= all.length
hasNextInclusive(start, limit, n) == start + limit <= n

\* start + limit < all.length
hasNext(start, limit, n) == start + limit < n

\* GET /api/dealers/:id/reviews: the body of the response (a NaN page is
\* null in JSON; with a NaN start the slice is empty)
getReviews(rs, id, query) ==
  LET page == maxNumber(Num(1),
                        parseInt(String(JsOr(query.page, Str(<<"1">>)))))
      limit == maxNumber(Num(1),
                 minNumber(Num(50),
                           parseInt(String(JsOr(query.limit, Str(<<"5">>))))))
      all == sortByTime(SelectSeq(rs, LAMBDA rv : rv.dealerId = id))
  IN IF NaN \in {page, limit}
       THEN [reviews |-> <<>>, page |-> IF page = NaN THEN Null ELSE page,
             nextPage |-> Null]
       ELSE LET start == (page.s - 1) * limit.s
            IN [reviews |-> SubSeq(all, start + 1,
                                   Min2(start + limit.s, Len(all))),
                page |-> page,
                nextPage |-> IF hasNext(start, limit.s, Len(all))
                               THEN Num(page.s + 1)
                               ELSE Null]

\* loadPage(1) of the detail view of dealer r.id: the reviews it shows and
\* the nextPage it keeps (the client's limit is 5; r.limit stands for it)
LoadPage(r) ==
  /\ LET res == getReviews(reviews, r.id,
                           [page |-> Str(<<"1">>), limit |-> r.limit])
     IN last' = Return("loadPage", <<r>>,
                       [shown |-> res.reviews, nextPage |-> res.nextPage])
  /\ args' = <<r>>
  /\ UNCHANGED <<dealers, reviews, users, uuids, log, served, pending, dd>>

\* "View more reviews": page = nextPage; loadPage(page)
ViewMore ==
  /\ last.op = "loadPage"
  /\ Truthy(last.ret.nextPage)
  /\ LET r == args[1]
         res == getReviews(reviews, r.id,
                           [page |-> Str(String(last.ret.nextPage)),
                            limit |-> r.limit])
     IN last' = Return("loadPage", <<r>>,
                       [shown |-> last.ret.shown \o res.reviews,
                        nextPage |-> res.nextPage])
  /\ UNCHANGED <<dealers, args, reviews, users, uuids, log, served, pending,
                 dd>>

\* the detail views of the first two dealers and of an unknown one, with the
\* client's limit, with limits of 2 and 0, and with one that is no number
PageRequests ==
  {[id |-> i, limit |-> l] :
     i \in {"D001", "D002", "D000"},
     l \in {Str(<<"5">>), Str(<<"2">>), Str(<<"0">>), Str(<<"x">>)}}

\* reviews of the first dealer posted by the demo user, in the millisecond of
\* the latest time stamp or later
PagePostRequests ==
  {[id |-> "D001", sub |-> DemoUserId, review |-> Str(Good),
    rating |-> Num(4), tick |-> k] : k \in {0, 1}}

\* edits by the demo user, which bump the time
PagePutRequests ==
  {[id |-> i, sub |-> DemoUserId, review |-> Undefined, rating |-> Num(2),
    tick |-> k] : i \in {reviews[j].id : j \in {3} \cap DOMAIN reviews},
                  k \in {0, 1}}

PageDeleteRequests ==
  {[id |-> reviews[1].id, sub |-> DemoUserId, role |-> "user"]}

InitPaging == InitRun

NextPaging ==
  \/ \E r \in PagePostRequests : PostReview(r)
  \/ \E r \in PagePutRequests : PutReview(r)
  \/ \E r \in PageDeleteRequests : DeleteReview(r)
  \/ \E r \in PageRequests : LoadPage(r)
  \/ ViewMore

SpecPaging == InitPaging /\ [][NextPaging]_vars

(***************************************************************************)
(* The client's search box (src/public/app.js): parseSearchQuery,          *)
(* goDealersSearch, the hash route and fetchDealers.                       *)
(***************************************************************************)
\* const STATE_NAME_TO_CODE = {...}
STATE_NAME_TO_CODE ==
  { [name |-> <<"a", "l", "a", "b", "a", "m", "a">>,
     code |-> <<"A", "L">>],
    [name |-> <<"a", "l", "a", "s", "k", "a">>,
     code |-> <<"A", "K">>],
    [name |-> <<"a", "r", "i", "z", "o", "n", "a">>,
     code |-> <<"A", "Z">>],
    [name |-> <<"a", "r", "k", "a", "n", "s", "a", "s">>,
     code |-> <<"A", "R">>],
    [name |-> <<"c", "a", "l", "i", "f", "o", "r", "n", "i", "a">>,
     code |-> <<"C", "A">>],
    [name |-> <<"c", "o", "l", "o", "r", "a", "d", "o">>,
     code |-> <<"C", "O">>],
    [name |-> <<"c", "o", "n", "n", "e", "c", "t", "i", "c", "u", "t">>,
     code |-> <<"C", "T">>],
    [name |-> <<"d", "e", "l", "a", "w", "a", "r", "e">>,
     code |-> <<"D", "E">>],
    [name |-> <<"f", "l", "o", "r", "i", "d", "a">>,
     code |-> <<"F", "L">>],
    [name |-> <<"g", "e", "o", "r", "g", "i", "a">>,
     code |-> <<"G", "A">>],
    [name |-> <<"h", "a", "w", "a", "i", "i">>,
     code |-> <<"H", "I">>],
    [name |-> <<"i", "d", "a", "h", "o">>,
     code |-> <<"I", "D">>],
    [name |-> <<"i", "l", "l", "i", "n", "o", "i", "s">>,
     code |-> <<"I", "L">>],
    [name |-> <<"i", "n", "d", "i", "a", "n", "a">>,
     code |-> <<"I", "N">>],
    [name |-> <<"i", "o", "w", "a">>,
     code |-> <<"I", "A">>],
    [name |-> <<"k", "a", "n", "s", "a", "s">>,
     code |-> <<"K", "S">>],
    [name |-> <<"k", "e", "n", "t", "u", "c", "k", "y">>,
     code |-> <<"K", "Y">>],
    [name |-> <<"l", "o", "u", "i", "s", "i", "a", "n", "a">>,
     code |-> <<"L", "A">>],
    [name |-> <<"m", "a", "i", "n", "e">>,
     code |-> <<"M", "E">>],
    [name |-> <<"m", "a", "r", "y", "l", "a", "n", "d">>,
     code |-> <<"M", "D">>],
    [name |-> <<"m", "a", "s", "s", "a", "c", "h", "u", "s", "e", "t", "t", "s">>,
     code |-> <<"M", "A">>],
    [name |-> <<"m", "i", "c", "h", "i", "g", "a", "n">>,
     code |-> <<"M", "I">>],
    [name |-> <<"m", "i", "n", "n", "e", "s", "o", "t", "a">>,
     code |-> <<"M", "N">>],
    [name |-> <<"m", "i", "s", "s", "i", "s", "s", "i", "p", "p", "i">>,
     code |-> <<"M", "S">>],
    [name |-> <<"m", "i", "s", "s", "o", "u", "r", "i">>,
     code |-> <<"M", "O">>],
    [name |-> <<"m", "o", "n", "t", "a", "n", "a">>,
     code |-> <<"M", "T">>],
    [name |-> <<"n", "e", "b", "r", "a", "s", "k", "a">>,
     code |-> <<"N", "E">>],
    [name |-> <<"n", "e", "v", "a", "d", "a">>,
     code |-> <<"N", "V">>],
    [name |-> <<"n", "e", "w", " ", "h", "a", "m", "p", "s", "h", "i", "r", "e">>,
     code |-> <<"N", "H">>],
    [name |-> <<"n", "e", "w", " ", "j", "e", "r", "s", "e", "y">>,
     code |-> <<"N", "J">>],
    [name |-> <<"n", "e", "w", " ", "m", "e", "x", "i", "c", "o">>,
     code |-> <<"N", "M">>],
    [name |-> <<"n", "e", "w", " ", "y", "o", "r", "k">>,
     code |-> <<"N", "Y">>],
    [name |-> <<"n", "o", "r", "t", "h", " ", "c", "a", "r", "o", "l", "i", "n", "a">>,
     code |-> <<"N", "C">>],
    [name |-> <<"n", "o", "r", "t", "h", " ", "d", "a", "k", "o", "t", "a">>,
     code |-> <<"N", "D">>],
    [name |-> <<"o", "h", "i", "o">>,
     code |-> <<"O", "H">>],
    [name |-> <<"o", "k", "l", "a", "h", "o", "m", "a">>,
     code |-> <<"O", "K">>],
    [name |-> <<"o", "r", "e", "g", "o", "n">>,
     code |-> <<"O", "R">>],
    [name |-> <<"p", "e", "n", "n", "s", "y", "l", "v", "a", "n", "i", "a">>,
     code |-> <<"P", "A">>],
    [name |-> <<"r", "h", "o", "d", "e", " ", "i", "s", "l", "a", "n", "d">>,
     code |-> <<"R", "I">>],
    [name |-> <<"s", "o", "u", "t", "h", " ", "c", "a", "r", "o", "l", "i", "n", "a">>,
     code |-> <<"S", "C">>],
    [name |-> <<"s", "o", "u", "t", "h", " ", "d", "a", "k", "o", "t", "a">>,
     code |-> <<"S", "D">>],
    [name |-> <<"t", "e", "n", "n", "e", "s", "s", "e", "e">>,
     code |-> <<"T", "N">>],
    [name |-> <<"t", "e", "x", "a", "s">>,
     code |-> <<"T", "X">>],
    [name |-> <<"u", "t", "a", "h">>,
     code |-> <<"U", "T">>],
    [name |-> <<"v", "e", "r", "m", "o", "n", "t">>,
     code |-> <<"V", "T">>],
    [name |-> <<"v", "i", "r", "g", "i", "n", "i", "a">>,
     code |-> <<"V", "A">>],
    [name |-> <<"w", "a", "s", "h", "i", "n", "g", "t", "o", "n">>,
     code |-> <<"W", "A">>],
    [name |-> <<"w", "e", "s", "t", " ", "v", "i", "r", "g", "i", "n", "i", "a">>,
     code |-> <<"W", "V">>],
    [name |-> <<"w", "i", "s", "c", "o", "n", "s", "i", "n">>,
     code |-> <<"W", "I">>],
    [name |-> <<"w", "y", "o", "m", "i", "n", "g">>,
     code |-> <<"W", "Y">>],
    [name |-> <<"d", "i", "s", "t", "r", "i", "c", "t", " ", "o", "f", " ", "c", "o", "l", "u", "m", "b", "i", "a">>,
     code |-> <<"D", "C">>] }

\* const STATE_CODES = new Set(Object.values(STATE_NAME_TO_CODE))
STATE_CODES == {e.code : e \in STATE_NAME_TO_CODE}

\* STATE_NAME_TO_CODE[t] for a text t: the code, or "" for undefined
\* (properties inherited from Object.prototype are not represented)
stateCodeOf(t) ==
  IF \E e \in STATE_NAME_TO_CODE : e.name = t
    THEN (CHOOSE e \in STATE_NAME_TO_CODE : e.name = t).code
    ELSE <<>>

\* String.prototype.toUpperCase on one ASCII character
UpperChar(c) ==
  IF \E i \in 1..Len(LowerCase) : LowerCase[i] = c
    THEN UpperCase[CHOOSE i \in 1..Len(LowerCase) : LowerCase[i] = c]
    ELSE c

\* String.prototype.toUpperCase
toUpperCase(cs) == [i \in 1..Len(cs) |-> UpperChar(cs[i])]

\* the character class \w
WordChars ==
  AlphaNum \cup {UpperCase[i] : i \in 1..Len(UpperCase)} \cup {"_"}

\* function toTitleCase(s): .replace(/\b[a-z]/g, ch => ch.toUpperCase())
toTitleCase(v) ==
  LET t == toLowerCase(trim(String(JsOr(v, Str(<<>>)))))
  IN [i \in 1..Len(t) |->
       IF t[i] \in (AlphaNum \ Digits) /\ (i = 1 \/ t[i - 1] \notin WordChars)
         THEN UpperChar(t[i])
         ELSE t[i]]

\* /^\d+$/ on a text that may be empty
AllDigits(cs) == \A i \in 1..Len(cs) : cs[i] \in Digits

\* looksLikeZip without the ZIP+4 form
looksLikeZipFiveOnly(v) ==
  LET t == trim(String(JsOr(v, Str(<<>>))))
  IN Len(t) = 5 /\ AllDigits(t)

\* function looksLikeZip(s): /^\s*\d{5}(-\d{4})?\s*$/i
looksLikeZip(v) ==
  LET t == trim(String(JsOr(v, Str(<<>>))))
  IN \/ Len(t) = 5 /\ AllDigits(t)
     \/ /\ Len(t) = 10
        /\ AllDigits(SubSeq(t, 1, 5))
        /\ t[6] = "-"
        /\ AllDigits(SubSeq(t, 7, 10))

\* function zip5(s): the first five of the text's digits
zip5(v) ==
  LET d == SelectSeq(String(JsOr(v, Str(<<>>))), LAMBDA c : c \in Digits)
  IN SubSeq(d, 1, Min2(5, Len(d)))

\* .replace(/\s+/g, " ")
RECURSIVE collapseSpaces(_)
collapseSpaces(cs) ==
  IF cs = <<>>
    THEN <<>>
    ELSE IF cs[1] \in WhiteSpace
      THEN <<" ">> \o collapseSpaces(trimStart(cs))
      ELSE <<cs[1]>> \o collapseSpaces(Tail(cs))

\* function normalizeStateToken(tok), as a text ("" when there is no state)
normalizeStateToken(tok) ==
  IF ~Truthy(tok)
    THEN <<>>
    ELSE LET t == toLowerCase(trim(String(tok)))
         IN IF Len(t) = 2 /\ toUpperCase(t) \in STATE_CODES
              THEN toUpperCase(t)
              ELSE IF stateCodeOf(t) # <<>>
                THEN stateCodeOf(t)
                ELSE stateCodeOf(collapseSpaces(t))

\* the position of the first "," of a text, or one past its end
firstComma(cs) ==
  IF \E i \in 1..Len(cs) : cs[i] = ","
    THEN CHOOSE i \in 1..Len(cs) :
           cs[i] = "," /\ \A j \in 1..(i - 1) : cs[j] # ","
    ELSE Len(cs) + 1

\* raw.split(",", 2) of a text with a comma: the first two pieces
splitComma(raw) ==
  LET i == firstComma(raw)
      rest == SubSeq(raw, i + 1, Len(raw))
  IN <<SubSeq(raw, 1, i - 1), SubSeq(rest, 1, firstComma(rest) - 1)>>

\* raw.split(/\s+/), cur being the piece that is open
RECURSIVE splitSpaces(_, _)
splitSpaces(cs, cur) ==
  IF cs = <<>>
    THEN <<cur>>
    ELSE IF cs[1] \in WhiteSpace
      THEN <<cur>> \o splitSpaces(trimStart(cs), <<>>)
      ELSE splitSpaces(Tail(cs), Append(cur, cs[1]))

\* parts.join(" ")
RECURSIVE joinSpace(_)
joinSpace(parts) ==
  IF parts = <<>>
    THEN <<>>
    ELSE IF Len(parts) = 1
      THEN parts[1]
      ELSE parts[1] \o <<" ">> \o joinSpace(Tail(parts))

\* the object parseSearchQuery returns; a property it does not set is
\* undefined
Parsed(zip, city, state, q) ==
  [zip |-> zip, city |-> city, state |-> state, brand |-> Undefined, q |-> q]

\* function parseSearchQuery(input)
parseSearchQuery(input) ==
  LET raw == trim(String(JsOr(input, Str(<<>>))))
      pieces == splitComma(raw)
      cityL == toTitleCase(Str(pieces[1]))
      stL == normalizeStateToken(Str(pieces[2]))
      parts == splitSpaces(raw, <<>>)
      stP == normalizeStateToken(Str(parts[Len(parts)]))
      cityP == toTitleCase(Str(joinSpace(SubSeq(parts, 1, Len(parts) - 1))))
  IN IF raw = <<>>
       THEN Parsed(Undefined, Undefined, Undefined, Str(<<>>))
       ELSE IF looksLikeZip(Str(raw))
         THEN Parsed(Str(zip5(Str(raw))), Undefined, Undefined, Undefined)
       ELSE IF (\E i \in 1..Len(raw) : raw[i] = ",")
               /\ cityL # <<>> /\ stL # <<>>
         THEN Parsed(Undefined, Str(cityL), Str(stL), Undefined)
       ELSE IF Len(parts) >= 2 /\ stP # <<>> /\ cityP # <<>>
         THEN Parsed(Undefined, Str(cityP), Str(stP), Undefined)
         ELSE Parsed(Undefined, Undefined, Undefined, Str(raw))

\* the characters URLSearchParams leaves as they are
FormSafe ==
  AlphaNum \cup {UpperCase[i] : i \in 1..Len(UpperCase)}
    \cup {"*", "-", ".", "_"}

\* URLSearchParams.prototype.toString on one value: a space becomes "+" and a
\* comma "%2C" (the one other character of the search texts)
RECURSIVE encodeForm(_)
encodeForm(cs) ==
  IF cs = <<>>
    THEN <<>>
    ELSE (CASE cs[1] \in FormSafe -> <<cs[1]>>
            [] cs[1] = " " -> <<"+">>
            [] cs[1] = "," -> <<"%", "2", "C">>)
         \o encodeForm(Tail(cs))

\* the parsing of one value of a query string: "+" is a space, "%2C" a comma
RECURSIVE decodeForm(_)
decodeForm(cs) ==
  IF cs = <<>>
    THEN <<>>
    ELSE IF cs[1] = "+"
      THEN <<" ">> \o decodeForm(Tail(cs))
      ELSE IF Len(cs) >= 3 /\ SubSeq(cs, 1, 3) = <<"%", "2", "C">>
        THEN <<",">> \o decodeForm(SubSeq(cs, 4, Len(cs)))
        ELSE <<cs[1]>> \o decodeForm(Tail(cs))

\* the keys goDealersSearch and fetchDealers go through, in their order
ParamKeys == <<"zip", "city", "state", "brand", "q">>

\* goDealersSearch: the parameters of the hash "#/dealers?...", each truthy
\* property of the parsed object set with its value encoded
hashParams(parsed) ==
  [k \in {ParamKeys[i] : i \in 1..Len(ParamKeys)} |->
    IF Truthy(parsed[k]) THEN Str(encodeForm(parsed[k].s)) ELSE Null]

\* params.get(key) in the route: the decoded value, or null
paramsGet(params, k) ==
  IF params[k].t = "string" THEN Str(decodeForm(params[k].s)) ELSE Null

\* fetchDealers: the query object from the truthy parameters, sent as a query
\* string and parsed by the server into req.query
fetchQuery(params) ==
  [k \in {ParamKeys[i] : i \in 1..Len(ParamKeys)} |->
    IF Truthy(paramsGet(params, k))
      THEN Str(decodeForm(encodeForm(paramsGet(params, k).s)))
      ELSE Undefined]

\* function goDealersSearch(query), up to the request fetchDealers sends
goDealersSearch(query) ==
  LET q == fetchQuery(hashParams(parseSearchQuery(query)))
  IN [route |-> "/api/dealers",
      query |-> listingQuery(q["state"], q["city"], q["zip"], q["brand"],
                             q["q"])]

\* the search box is submitted with the text args[1]: the client's request
\* and the server's response to it
SubmitSearch ==
  /\ Idle
  /\ Len(args) = 1
  /\ LET r == goDealersSearch(args[1])
     IN /\ last' = IF getDealersThrows(dealers, r.query)
                     THEN Throw("goDealersSearch", args, "TypeError")
                     ELSE Return("goDealersSearch", args,
                                 [request |-> r,
                                  response |-> getDealers(dealers, r.query)])
        /\ dealers' = dealersAfterGetDealers(dealers, r.query)
  /\ UNCHANGED <<pending, dd, args, reviews, users, uuids, log, served>>

\* the digits of the ZIP-like search texts
ZipDigits == {"0", "2", "8"}

\* the texts submitted: five digits, alone, in ZIP+4 form and between
\* blanks; four and six digits; a short ZIP+4 suffix; a letter among the
\* digits; city, state and free texts
SearchTexts ==
  LET five == {s \in SeqsUpTo(ZipDigits, 5) : Len(s) = 5}
      four == {s \in SeqsUpTo(ZipDigits, 4) : Len(s) = 4}
  IN five
     \cup {z \o <<"-", "2", "8", "0", "0">> : z \in five}
     \cup {<<" ">> \o z \o <<" ">> : z \in five}
     \cup four
     \cup {<<"1">> \o z : z \in five}
     \cup {z \o <<"-", "2", "8", "0">> : z \in four \cup five}
     \cup {z \o <<"a">> : z \in four}
     \cup {z \o <<" ", "c", "o">> : z \in four}
     \cup { <<>>, <<" ">>,
            <<"D", "e", "n", "v", "e", "r", ",", " ", "C", "O">>,
            <<"d", "e", "n", "v", "e", "r", " ", "c", "o">>,
            <<"n", "e", "w", " ", "y", "o", "r", "k", ",", "n", "e", "w", " ",
              " ", "y", "o", "r", "k">>,
            <<"A", "u", "s", "t", "i", "n", " ", "T", "e", "x", "a", "s">>,
            <<"T", "o", "y", "o", "t", "a">>,
            <<"a", ",", "b">>,
            <<"1", "0", "0", "0", "1">>,
            <<"1", "0", "0", "0", "1", "-", "0", "0", "0", "1">> }

\* the page after start-up on the seeded store, with the text about to be
\* submitted
InitClient ==
  /\ dealers = SeedDealers
  /\ args \in {<<Str(t)>> : t \in SearchTexts}
  /\ last = Boot
  /\ reviews = seedReviews(dealers)
  /\ users = SeedUsers
  /\ uuids = UuidsBeforeReviews + Len(reviews)
  /\ log = {}
  /\ served = 0
  /\ pending = {}
  /\ dd = SearchBox

NextClient == SubmitSearch

SpecClient == InitClient /\ [][NextClient]_vars

(***************************************************************************)
(* parseSearchQuery called on texts that name a city and a state.          *)
(***************************************************************************)
\* city texts of one and of two words
CityTexts ==
  { <<"a", "u", "s", "t", "i", "n">>,
    <<"L", "a", "s", " ", "c", "r", "u", "c", "e", "s">> }

\* the ways a state of the table is typed: its code in upper and in lower
\* case, its name in lower case and capitalised
StateTokens(e) ==
  {e.code, toLowerCase(e.code), e.name, toTitleCase(Str(e.name))}

\* "City, ST", "City, State", "City ST" and "City State" for every state
CityStateTexts ==
  {c \o sep \o tok : c \in CityTexts, sep \in {<<",", " ">>, <<" ">>},
                     tok \in UNION {StateTokens(e) : e \in STATE_NAME_TO_CODE}}

\* a call parseSearchQuery(input)
CallParseSearchQuery ==
  /\ Idle
  /\ Len(args) = 1
  /\ last' = Return("parseSearchQuery", args, parseSearchQuery(args[1]))
  /\ UNCHANGED <<dealers, args, reviews, users, uuids, log, served, pending,
                 dd>>

InitParse ==
  /\ dealers = SeedDealers
  /\ args \in {<<Str(t)>> : t \in CityStateTexts}
  /\ last = Boot
  /\ reviews = seedReviews(dealers)
  /\ users = SeedUsers
  /\ uuids = UuidsBeforeReviews + Len(reviews)
  /\ log = {}
  /\ served = 0
  /\ pending = {}
  /\ dd = SearchBox

NextParse == CallParseSearchQuery

SpecParse == InitParse /\ [][NextParse]_vars

(***************************************************************************)
(* The suggestions dropdown of the search box (bindSearch): the input      *)
(* handler with its debounce timer and its request, the Enter key, the     *)
(* button, clicks, and the hashchange listener. served counts the user's   *)
(* events.                                                                 *)
(***************************************************************************)
\* encodeURIComponent on the characters of the texts typed
RECURSIVE encodeURIComponent(_)
encodeURIComponent(cs) ==
  IF cs = <<>>
    THEN <<>>
    ELSE (CASE cs[1] \in FormSafe \cup {"!", "~", "'", "(", ")"} -> <<cs[1]>>
            [] cs[1] = " " -> <<"%", "2", "0">>
            [] cs[1] = "," -> <<"%", "2", "C">>)
         \o encodeURIComponent(Tail(cs))

\* the server's parsing of one value of the query string
RECURSIVE decodeQuery(_)
decodeQuery(cs) ==
  IF cs = <<>>
    THEN <<>>
    ELSE IF cs[1] = "+"
      THEN <<" ">> \o decodeQuery(Tail(cs))
      ELSE IF Len(cs) >= 3 /\ SubSeq(cs, 1, 3) = <<"%", "2", "0">>
        THEN <<" ">> \o decodeQuery(SubSeq(cs, 4, Len(cs)))
        ELSE IF Len(cs) >= 3 /\ SubSeq(cs, 1, 3) = <<"%", "2", "C">>
          THEN <<",">> \o decodeQuery(SubSeq(cs, 4, Len(cs)))
          ELSE <<cs[1]>> \o decodeQuery(Tail(cs))

\* location.hash = `#/dealers?...` with these parameters
dealersHash(params) == [path |-> "/dealers", params |-> params]

\* function routeForSuggestion(kind, value): the hash it sets
routeForSuggestion(kind, value) ==
  LET key == IF kind \in {"zip", "state", "city", "brand"} THEN kind ELSE "q"
      val == CASE kind = "zip" -> zip5(value)
               [] kind = "state" -> normalizeStateToken(value)
               [] kind = "city" -> toTitleCase(value)
               [] OTHER -> value.s
  IN dealersHash([k \in {ParamKeys[i] : i \in 1..Len(ParamKeys)} |->
                    IF k = key THEN Str(encodeForm(val)) ELSE Null])

\* the "input" listener: the pending timer is cleared; an empty text hides
\* the dropdown, any other starts the timer of 180 ms with the trimmed text
InputEvent(v) ==
  /\ served < MaxRequests
  /\ served' = served + 1
  /\ dd' = [dd EXCEPT !.value = v,
                      !.typed = TRUE,
                      !.debounce = IF trim(v) = <<>> THEN Null
                                                     ELSE Str(trim(v)),
                      !.show = IF trim(v) = <<>> THEN FALSE ELSE @]
  /\ last' = Return("input", <<Str(v)>>, <<>>)
  /\ UNCHANGED <<dealers, args, reviews, users, uuids, log, pending>>

\* the timer fires: the suggestion request is sent
DebounceFires ==
  /\ dd.debounce # Null
  /\ dd' = [dd EXCEPT !.debounce = Null,
                      !.fetches = @ \cup {[n |-> served, q |-> dd.debounce]}]
  /\ last' = Return("setTimeout", <<dd.debounce>>, <<>>)
  /\ UNCHANGED <<dealers, args, reviews, users, uuids, log, served, pending>>

\* the response to a suggestion request arrives: the server's suggestions
\* for the text it was sent are rendered and shown (none: the dropdown is
\* hidden)
SuggestArrives(f) ==
  /\ f \in dd.fetches
  /\ LET q == Str(decodeQuery(encodeURIComponent(f.q.s)))
     IN /\ last' = Return("GET /api/search/suggest", <<f>>,
                          [suggestions |-> suggestionsFor(dealers, q)])
        /\ dealers' = dealersAfterSuggestionsFor(dealers, q)
  /\ LET items == last'.ret.suggestions
     IN dd' = [dd EXCEPT !.fetches = @ \ {f},
                         !.items = IF items = <<>> THEN @ ELSE items,
                         !.show = items # <<>>]
  /\ UNCHANGED <<args, reviews, users, uuids, log, served, pending>>

\* a suggestion request fails (api throws): the dropdown is hidden
SuggestFails(f) ==
  /\ f \in dd.fetches
  /\ dd' = [dd EXCEPT !.fetches = @ \ {f}, !.show = FALSE]
  /\ last' = Throw("GET /api/search/suggest", <<f>>, "Error")
  /\ UNCHANGED <<dealers, args, reviews, users, uuids, log, served, pending>>

\* location.hash = h: a hashchange event is queued when the hash changes
setHash(box, h) ==
  [box EXCEPT !.hash = h, !.changed = @ \/ h # box.hash]

\* the Enter key in the input, or a click on the button: the dropdown is
\* hidden and goDealersSearch(input.value) sets the hash
SubmitEvent ==
  /\ served < MaxRequests
  /\ served' = served + 1
  /\ dd' = setHash([dd EXCEPT !.show = FALSE],
                   dealersHash(hashParams(parseSearchQuery(Str(dd.value)))))
  /\ last' = Return("goDealersSearch", <<Str(dd.value)>>, <<>>)
  /\ UNCHANGED <<dealers, args, reviews, users, uuids, log, pending>>

\* a click outside the dropdown and the input
DocumentClick ==
  /\ served < MaxRequests
  /\ served' = served + 1
  /\ dd' = [dd EXCEPT !.show = FALSE]
  /\ last' = Return("click", <<>>, <<>>)
  /\ UNCHANGED <<dealers, args, reviews, users, uuids, log, pending>>

\* a click on the i-th suggestion shown
SuggestionClick(i) ==
  /\ served < MaxRequests
  /\ dd.show
  /\ i \in 1..Len(dd.items)
  /\ served' = served + 1
  /\ dd' = setHash([dd EXCEPT !.value = dd.items[i].value.s,
                              !.show = FALSE],
                   routeForSuggestion(dd.items[i].kind, dd.items[i].value))
  /\ last' = Return("el.onclick", <<dd.items[i]>>, <<>>)
  /\ UNCHANGED <<dealers, args, reviews, users, uuids, log, pending>>

\* the hashchange listener of bindSearch
HashChange ==
  /\ dd.changed
  /\ dd' = [dd EXCEPT !.show = FALSE, !.changed = FALSE, !.typed = FALSE]
  /\ last' = Return("hashchange", <<dd.hash>>, <<>>)
  /\ UNCHANGED <<dealers, args, reviews, users, uuids, log, served, pending>>

\* the texts typed: none, a blank, and two states
TypedTexts == { <<>>, <<" ">>, <<"n", "y">>, <<"c", "o", " ">> }

InitDropdown == InitRun

NextDropdown ==
  \/ \E v \in TypedTexts : InputEvent(v)
  \/ DebounceFires
  \/ \E f \in dd.fetches : SuggestArrives(f)
  \/ \E f \in dd.fetches : SuggestFails(f)
  \/ SubmitEvent
  \/ DocumentClick
  \/ \E i \in 1..SuggestCount : SuggestionClick(i)
  \/ HashChange

SpecDropdown == InitDropdown /\ [][NextDropdown]_vars

(***************************************************************************)
(* Reference notions the claims are stated with.                           *)
(***************************************************************************)
\* the normalized alphabet of the inputs
NormChars == {LowerChar(c) : c \in RawChars} \cap AlphaNum

NormStrs == SeqsUpTo(NormChars, MaxLen)

\* every string one insertion, deletion or substitution away from s
OneEdit(s) ==
  {SubSeq(s, 1, i - 1) \o SubSeq(s, i + 1, Len(s)) : i \in 1..Len(s)}
  \cup {SubSeq(s, 1, i) \o <<c>> \o SubSeq(s, i + 1, Len(s)) :
          i \in 0..Len(s), c \in NormChars}
  \cup {[s EXCEPT ![i] = c] : i \in 1..Len(s), c \in NormChars}

\* every string at most k edits away from s (intermediate strings may be one
\* character longer than any input)
RECURSIVE WithinEdits(_, _)
WithinEdits(s, k) ==
  IF k = 0
    THEN {s}
    ELSE LET W == WithinEdits(s, k - 1)
         IN W \cup {t \in UNION {OneEdit(u) : u \in W} : Len(t) <= MaxLen + 1}

\* the least number of edits turning a into b, for a, b in NormStrs
EditDistance ==
  [a \in NormStrs |->
    LET ball == [k \in 0..MaxLen |-> WithinEdits(a, k)]
    IN [b \in NormStrs |-> CHOOSE k \in 0..MaxLen :
                              /\ b \in ball[k]
                              /\ \A j \in 0..(k - 1) : b \notin ball[j]]]

\* part occurs in text as a contiguous run of characters
IsSubstring(part, text) ==
  \E pre \in 0..Len(text) :
    /\ pre + Len(part) <= Len(text)
    /\ \A k \in 1..Len(part) : text[pre + k] = part[k]

(***************************************************************************)
(* The matcher's functions (checked under SpecFn).                         *)
(***************************************************************************)
\* C1: lev(a, b) is the Levenshtein distance of norm(a) and norm(b): the
\* least number of single-character insertions, deletions and substitutions
\* that turn one into the other, the empty string included.
LevIsEditDistance ==
  last.op = "lev" =>
    last.ret = EditDistance[norm(last.args[1])][norm(last.args[2])]

\* a call of lev on two different non-empty normalized strings of different
\* lengths that are two edits apart
LevIsEditDistanceWitness ==
  /\ last.op = "lev"
  /\ norm(last.args[1]) # <<>>
  /\ norm(last.args[2]) # <<>>
  /\ Len(norm(last.args[1])) # Len(norm(last.args[2]))
  /\ last.ret = 2

\* C2: in both server files, scoreQuery(q, f) returns 0 when norm(q) and
\* norm(f) are non-empty and norm(f) contains norm(q), whatever their edit
\* distance.
SubstringScoresZero ==
  ( /\ last.op \in {"scoreQuery", "scoreQueryIndex"}
    /\ norm(last.args[1]) # <<>>
    /\ norm(last.args[2]) # <<>>
    /\ IsSubstring(norm(last.args[1]), norm(last.args[2])) )
  => (last.threw = "" /\ last.ret = 0)

\* C3: scoreQuery returns the sentinel 999 when norm(q) or norm(text) is
\* empty, also when both are (the emptiness test comes before the substring
\* test).
EmptyScoresSentinel ==
  ( /\ last.op = "scoreQuery"
    /\ (norm(last.args[1]) = <<>> \/ norm(last.args[2]) = <<>>) )
  => last.ret = 999

\* scoreQuery called on two non-empty strings that both normalize to the
\* empty string
EmptyScoresSentinelWitness ==
  /\ last.op = "scoreQuery"
  /\ last.args[1].t = "string" /\ last.args[1].s # <<>>
  /\ last.args[2].t = "string" /\ last.args[2].s # <<>>
  /\ norm(last.args[1]) = <<>>
  /\ norm(last.args[2]) = <<>>
  /\ last.ret = 999

\* C4: when norm(q) and norm(text) are non-empty and norm(text) does not
\* contain norm(q), scoreQuery returns their Levenshtein distance, which is
\* at least 1.
OtherwiseScoresDistance ==
  ( /\ last.op = "scoreQuery"
    /\ norm(last.args[1]) # <<>>
    /\ norm(last.args[2]) # <<>>
    /\ ~IsSubstring(norm(last.args[1]), norm(last.args[2])) )
  => ( /\ last.ret = EditDistance[norm(last.args[1])][norm(last.args[2])]
       /\ last.ret >= 1 )

\* scoreQuery called with a query that contains the text but is not contained
\* in it, one edit away
OtherwiseScoresDistanceWitness ==
  /\ last.op = "scoreQuery"
  /\ norm(last.args[2]) # <<>>
  /\ IsSubstring(norm(last.args[2]), norm(last.args[1]))
  /\ ~IsSubstring(norm(last.args[1]), norm(last.args[2]))
  /\ last.ret = 1

\* the positions of a raw string whose lower-cased character is in [a-z0-9]
KeptPositions(raw) == {i \in 1..Len(raw) : LowerChar(raw[i]) \in AlphaNum}

\* the k-th smallest member of a set of positions
NthOf(K, k) == CHOOSE i \in K : Cardinality({j \in K : j <= i}) = k

\* C5: norm(s) is s lower-cased without the characters outside [a-z0-9], the
\* others kept in order; it holds characters of [a-z0-9] only, and undefined,
\* null and "" give the empty string.
NormIsLowerAlphaNum ==
  (last.op = "norm" /\ last.args[1].t \in {"string", "undefined", "null"}) =>
    LET v == last.args[1]
        raw == IF v.t = "string" THEN v.s ELSE <<>>
        K == KeptPositions(raw)
        r == last.ret
    IN /\ Len(r) = Cardinality(K)
       /\ \A k \in 1..Len(r) :
            /\ r[k] \in AlphaNum
            /\ r[k] = LowerChar(raw[NthOf(K, k)])
       /\ (v \in {Undefined, Null, Str(<<>>)} => r = <<>>)

\* norm called on a string with an upper-case letter, a punctuation mark and
\* a digit
NormIsLowerAlphaNumWitness ==
  /\ last.op = "norm"
  /\ last.args[1] = Str(<<"A", "-", "1">>)
  /\ last.ret = <<"a", "1">>

(***************************************************************************)
(* Listing search and suggestions (checked under Spec).                    *)
(***************************************************************************)
\* the request being served is a listing search with a non-empty q
IsSearch ==
  /\ last.op = "GET /api/dealers"
  /\ last.threw = ""
  /\ Truthy(args[1].query.q)

\* d passes the exact state, city, zip and brand filters of the request
PassesFilters(d, query) ==
  /\ Truthy(query.state) => toLowerCase(d.state.s) = toLowerCase(query.state.s)
  /\ Truthy(query.city) => toLowerCase(d.city.s) = toLowerCase(query.city.s)
  /\ Truthy(query.zip) => (d.zip.t = "string" /\ d.zip.s = query.zip.s)
  /\ Truthy(query.brand) =>
       toLowerCase(query.brand.s) \in
         {toLowerCase(d.brands.s[k].s) : k \in 1..Len(d.brands.s)}

\* the store positions of the pre-filtered candidates
Candidates == {i \in 1..Len(dealers) : PassesFilters(dealers[i], args[1].query)}

\* the searchable values of a dealer
SearchFields(d) ==
  {d.name, d.city, d.state, d.zip} \cup {d.brands.s[k] : k \in 1..Len(d.brands.s)}

\* s is the least scoreQuery(q, f) over the searchable values of d
IsBestFieldScore(s, q, d) ==
  /\ \E f \in SearchFields(d) : s = scoreQuery(q, f)
  /\ \A f \in SearchFields(d) : s <= scoreQuery(q, f)

\* the per-record score of d for q
RecordScore(q, d) ==
  LET S == {scoreQuery(q, f) : f \in SearchFields(d)}
  IN CHOOSE s \in S : \A t \in S : s <= t

\* the store position of a returned dealer
StorePos(d) == CHOOSE i \in 1..Len(dealers) : dealers[i].id = d.id

\* C6: in a listing search with non-empty q, the score of each candidate is
\* the minimum of scoreQuery(q, field) over its name, city, state, zip and
\* every one of its brands.
ScoreIsBestField ==
  IsSearch =>
    /\ Len(last.ret.scored) = Cardinality(Candidates)
    /\ \A i \in 1..Len(last.ret.scored) :
         IsBestFieldScore(last.ret.scored[i].score, args[1].query.q,
                          last.ret.scored[i].dealer)

\* a search in which a dealer's score comes from a brand alone: name, city,
\* state and zip all score higher
ScoreIsBestFieldWitness ==
  /\ IsSearch
  /\ \E i \in 1..Len(last.ret.scored) :
       LET x == last.ret.scored[i]
           q == args[1].query.q
       IN /\ \E k \in 1..Len(x.dealer.brands.s) :
               x.score = scoreQuery(q, x.dealer.brands.s[k])
          /\ \A f \in {x.dealer.name, x.dealer.city, x.dealer.state,
                        x.dealer.zip} : x.score < scoreQuery(q, f)

\* the lowest per-record score among the candidates (which are not none)
BestScore ==
  LET S == {RecordScore(args[1].query.q, dealers[i]) : i \in Candidates}
  IN CHOOSE s \in S : \A t \in S : s <= t

\* C7: for a non-empty query, the response's dealers list is empty when there
\* is no candidate or the lowest candidate score is greater than 4, and not
\* empty when the lowest score is 4 or less.
ThresholdCutoff ==
  IsSearch =>
    IF Candidates = {} \/ BestScore > 4
      THEN last.ret.dealers = <<>>
      ELSE last.ret.dealers # <<>>

\* a search whose best candidate scores exactly 5 and that returns nothing
ThresholdCutoffWitness ==
  /\ IsSearch
  /\ Candidates # {}
  /\ BestScore = 5
  /\ last.ret.dealers = <<>>

\* C8: when a non-empty query's best score is at most 4, the response holds
\* every pre-filtered record exactly once and nothing else, whatever the
\* records' own scores.
ReturnsAllCandidates ==
  (IsSearch /\ Candidates # {} /\ BestScore <= 4) =>
    /\ Len(last.ret.dealers) = Cardinality(Candidates)
    /\ \A i \in Candidates :
         Cardinality({j \in 1..Len(last.ret.dealers) :
                        last.ret.dealers[j] = toDealerDTO(dealers[i])}) = 1

\* a search with a best score of at most 4 that returns a record scoring the
\* sentinel and a record scoring 5 next to the match
ReturnsAllCandidatesWitness ==
  /\ IsSearch
  /\ Candidates # {}
  /\ BestScore <= 4
  /\ \E j \in 1..Len(last.ret.dealers) :
       RecordScore(args[1].query.q, last.ret.dealers[j]) = Sentinel
  /\ \E j \in 1..Len(last.ret.dealers) :
       RecordScore(args[1].query.q, last.ret.dealers[j]) = 5

\* C9: the list returned for a non-empty query is in non-decreasing order of
\* per-record score.
SortedByScore ==
  IsSearch =>
    \A i \in 1..Len(last.ret.dealers), j \in 1..Len(last.ret.dealers) :
      i < j => RecordScore(args[1].query.q, last.ret.dealers[i])
                 <= RecordScore(args[1].query.q, last.ret.dealers[j])

\* a search returning three records with three different scores, the first of
\* them taken from the end of the store
SortedByScoreWitness ==
  /\ IsSearch
  /\ Len(last.ret.dealers) = 3
  /\ StorePos(last.ret.dealers[1]) = 3
  /\ RecordScore(args[1].query.q, last.ret.dealers[1])
       < RecordScore(args[1].query.q, last.ret.dealers[2])
  /\ RecordScore(args[1].query.q, last.ret.dealers[2])
       < RecordScore(args[1].query.q, last.ret.dealers[3])

\* the request being served is a suggestion request
IsSuggest ==
  last.op \in {"GET /api/dealers/search", "GET /api/search/suggest"}

\* a suggestion without its score: the pool entry it was made from
PoolEntryOf(x) == poolItem(x.kind, x.value)

\* the pool position the k-th suggestion was taken from: equal entries are
\* returned in pool order, so its m-th occurrence in the output is the m-th
\* occurrence in the pool
PoolPos(out, pool, k) ==
  LET m == Cardinality({h \in 1..k : PoolEntryOf(out[h]) = PoolEntryOf(out[k])})
      occ == {p \in 1..Len(pool) : pool[p] = PoolEntryOf(out[k])}
  IN IF Cardinality(occ) < m
       THEN 0
       ELSE CHOOSE p \in occ : Cardinality({r \in occ : r <= p}) = m

\* C10: ranking is stable: dealers of a listing search with equal scores keep
\* their store order, and suggestions with equal scores keep their pool
\* order (names, cities, states, zips, brands).
RankingStable ==
  /\ IsSearch =>
       \A i \in 1..Len(last.ret.dealers), j \in 1..Len(last.ret.dealers) :
         ( /\ i < j
           /\ RecordScore(args[1].query.q, last.ret.dealers[i])
                = RecordScore(args[1].query.q, last.ret.dealers[j]) )
         => StorePos(last.ret.dealers[i]) < StorePos(last.ret.dealers[j])
  /\ IsSuggest =>
       LET out == last.ret.suggestions
           pool == suggestionPool(dealers)
       IN \A i \in 1..Len(out), j \in 1..Len(out) :
            /\ PoolPos(out, pool, i) > 0
            /\ (i < j /\ out[i].score = out[j].score)
                 => PoolPos(out, pool, i) < PoolPos(out, pool, j)

\* a search that moves a later record ahead of two different records with one
\* and the same score, which follow in store order
RankingStableWitness ==
  /\ IsSearch
  /\ Len(last.ret.dealers) = 3
  /\ StorePos(last.ret.dealers[1]) = 3
  /\ last.ret.dealers[2].zip # last.ret.dealers[3].zip
  /\ RecordScore(args[1].query.q, last.ret.dealers[2])
       = RecordScore(args[1].query.q, last.ret.dealers[3])
  /\ RecordScore(args[1].query.q, last.ret.dealers[1])
       < RecordScore(args[1].query.q, last.ret.dealers[2])

\* suggestions with a tie between entries of different categories
SuggestionTieWitness ==
  /\ IsSuggest
  /\ Len(last.ret.suggestions) = 3
  /\ last.ret.suggestions[1].score < last.ret.suggestions[2].score
  /\ last.ret.suggestions[2].score = last.ret.suggestions[3].score
  /\ last.ret.suggestions[2].kind # last.ret.suggestions[3].kind
  /\ last.ret.suggestions[1].kind = "brand"

\* the query text of the suggestion request being served
SuggestQ ==
  IF args[1].route = "/api/dealers/search"
    THEN args[1].query.query
    ELSE args[1].query.q

\* C11: suggestions have no score threshold: for a non-empty query the result
\* holds min(3, pool size) entries, in ascending score order, and no pool
\* entry left out scores lower than one returned, however large the scores.
SuggestionsAreTheBest ==
  (IsSuggest /\ Truthy(SuggestQ)) =>
    LET out == last.ret.suggestions
        pool == suggestionPool(dealers)
        n == IF Len(pool) < 3 THEN Len(pool) ELSE 3
    IN /\ Len(out) = n
       /\ \A k \in 1..Len(out) :
            /\ PoolPos(out, pool, k) > 0
            /\ out[k].score = scoreQuery(SuggestQ, out[k].value)
            /\ k > 1 => out[k - 1].score <= out[k].score
            /\ Cardinality({p \in 1..Len(pool) :
                  scoreQuery(SuggestQ, pool[p].value) < out[k].score}) < k

\* three suggestions that all score the sentinel, for a query that is not
\* empty
SuggestionsAreTheBestWitness ==
  /\ IsSuggest
  /\ Truthy(SuggestQ)
  /\ Len(last.ret.suggestions) = 3
  /\ \A k \in 1..3 : last.ret.suggestions[k].score = Sentinel

\* C12: the suggestion pool has no two entries with the same category and
\* the same value, nor have the suggestions returned, while equal values of
\* different categories are all kept.
PoolHasNoDuplicates ==
  (IsSuggest /\ Truthy(SuggestQ)) =>
    LET out == last.ret.suggestions
        pool == suggestionPool(dealers)
    IN /\ \A i \in 1..Len(pool), j \in 1..Len(pool) :
            (pool[i].kind = pool[j].kind /\ pool[i].value = pool[j].value)
              => i = j
       /\ \A i \in 1..Len(out), j \in 1..Len(out) :
            (out[i].kind = out[j].kind /\ out[i].value = out[j].value)
              => i = j

\* q and v cannot be compared: one of them normalizes to the empty string
Incomparable(q, v) == norm(q) = <<>> \/ norm(v) = <<>>

\* C13: in the output of a suggestion request and of a listing search, every
\* candidate that is incomparable with the query (score 999, the sentinel)
\* comes after every candidate whose score is 0 for a substring match or a
\* computed edit distance, whatever the query and the field strings are.
SentinelSortsLast ==
  /\ (IsSuggest /\ Truthy(SuggestQ)) =>
       LET out == last.ret.suggestions
       IN \A i \in 1..Len(out) : \A j \in 1..Len(out) :
            ( /\ Incomparable(SuggestQ, out[i].value)
              /\ ~Incomparable(SuggestQ, out[j].value) ) => j < i
  /\ IsSearch =>
       LET out == last.ret.dealers
           q == args[1].query.q
       IN \A i \in 1..Len(out) : \A j \in 1..Len(out) :
            ( /\ \A f \in SearchFields(out[i]) : Incomparable(q, f)
              /\ \E f \in SearchFields(out[j]) : ~Incomparable(q, f) ) => j < i

\* the request carries none of the exact filters
NoFilters ==
  \A v \in {args[1].query.state, args[1].query.city, args[1].query.zip,
             args[1].query.brand} : ~Truthy(v)

\* C14: no exception propagates from the suggestion ranker or from the
\* listing ranker (a listing request without exact filters), whatever
\* searchable field of a record is absent or null.
NoExceptionPropagates ==
  /\ IsSuggest => last.threw = ""
  /\ (last.op = "GET /api/dealers" /\ NoFilters) => last.threw = ""

\* C15: norm gives the empty string for every input that is not a string
\* (absent, null, a number, a boolean, an array, an object), and scoreQuery
\* gives the sentinel when its query or its text is such an input.
NonStringsCoercedToEmpty ==
  /\ (last.op = "norm" /\ last.args[1].t # "string") => last.ret = <<>>
  /\ ( /\ last.op = "scoreQuery"
       /\ (last.args[1].t # "string" \/ last.args[2].t # "string") )
     => last.ret = Sentinel

\* C16: lev(a, b) = lev(b, a) for all strings a and b.
LevIsSymmetric ==
  last.op = "lev" => last.ret = lev(last.args[2], last.args[1])

\* lev called on two strings of different lengths, neither empty once
\* normalized, that are not equal
LevIsSymmetricWitness ==
  /\ last.op = "lev"
  /\ norm(last.args[1]) # <<>>
  /\ Len(norm(last.args[1])) < Len(norm(last.args[2]))
  /\ last.ret > Len(norm(last.args[2])) - Len(norm(last.args[1]))

\* v is a string over the normalized alphabet [a-z0-9]
IsNormalized(v) == v.t = "string" /\ norm(v) = v.s

\* C17: for all strings a, b, c over [a-z0-9],
\* lev(a, c) <= lev(a, b) + lev(b, c).
LevTriangle ==
  (last.op = "lev" /\ IsNormalized(last.args[1]) /\ IsNormalized(last.args[2]))
  => \A b \in NormStrs :
       last.ret <= lev(last.args[1], Str(b)) + lev(Str(b), last.args[2])

\* lev called on two normalized strings for which some middle string makes
\* the two sides equal, all three strings different
LevTriangleWitness ==
  /\ last.op = "lev"
  /\ IsNormalized(last.args[1])
  /\ IsNormalized(last.args[2])
  /\ last.ret >= 2
  /\ \E b \in NormStrs \ {last.args[1].s, last.args[2].s} :
       last.ret = lev(last.args[1], Str(b)) + lev(Str(b), last.args[2])

\* the request being served is a listing request that returned
IsListing == last.op = "GET /api/dealers" /\ last.threw = ""

\* C21: a listing request whose q is absent or the empty string returns
\* every record that passes the exact filters, in store order, with nothing
\* scored; its list is empty only when no record passes the filters.
EmptyQueryListsAll ==
  (IsListing /\ args[1].query.q \in {Undefined, Str(<<>>)}) =>
    LET cand == SelectSeq(dealers, LAMBDA d : PassesFilters(d, args[1].query))
    IN /\ last.ret.scored = <<>>
       /\ last.ret.dealers = [i \in 1..Len(cand) |-> toDealerDTO(cand[i])]
       /\ (last.ret.dealers = <<>>) <=> (Candidates = {})

\* a listing request with q = "" and a filter that drops the first record of
\* the store and keeps two others
EmptyQueryListsAllWitness ==
  /\ IsListing
  /\ args[1].query.q = Str(<<>>)
  /\ Len(last.ret.dealers) = 2
  /\ 1 \notin Candidates

\* C22: a listing request whose q is a non-empty string that normalizes to
\* the empty string gives every candidate the sentinel score and returns the
\* empty list, whatever the store holds.
UnnormalizableQueryListsNone ==
  ( /\ IsListing
    /\ args[1].query.q.t = "string"
    /\ args[1].query.q.s # <<>>
    /\ norm(args[1].query.q) = <<>> ) =>
    /\ last.ret.dealers = <<>>
    /\ Len(last.ret.scored) = Cardinality(Candidates)
    /\ \A i \in 1..Len(last.ret.scored) : last.ret.scored[i].score = Sentinel

\* a listing request with such a q and no filter on a store of three
\* records, which the same request with q = "" would all return
UnnormalizableQueryListsNoneWitness ==
  /\ IsListing
  /\ args[1].query.q = Str(<<"-">>)
  /\ NoFilters
  /\ Len(last.ret.scored) = 3
  /\ last.ret.dealers = <<>>

(***************************************************************************)
(* Runs of several requests (checked under SpecRun).                       *)
(***************************************************************************)
\* the step serves a listing or a suggestion request
IsMatchingStep ==
  last'.op \in {"GET /api/dealers", "GET /api/dealers/search",
                "GET /api/search/suggest"}

Matched(ret) ==
  IF "dealers" \in DOMAIN ret
    THEN [i \in 1..Len(ret.dealers) |->
           LET d == ret.dealers[i]
           IN [id |-> d.id, name |-> d.name, city |-> d.city,
               state |-> d.state, zip |-> d.zip, brands |-> d.brands,
               phone |-> d.phone]]
    ELSE ret.suggestions

\* C19: two identical listing requests return the same dealers in the same
\* order, and two identical suggestion requests the same suggestions,
\* whatever requests are served between them (other queries, review
\* creation, edit and deletion, registrations, password resets).
MatchingIsPure ==
  \A x \in log : \A y \in log :
    x.req = y.req => Matched(x.ret) = Matched(y.ret)

\* the same listing request answered twice with a review created in between:
\* the two responses differ (in a rating), the dealers returned do not
MatchingIsPureWitness ==
  \E x \in log : \E y \in log :
    /\ x.req = y.req
    /\ x.req.route = "/api/dealers"
    /\ x.ret # y.ret
    /\ Matched(x.ret) # <<>>

(***************************************************************************)
(* The search box (checked under SpecClient).                              *)
(***************************************************************************)
\* cs is a ZIP code: five digits, or five digits, a hyphen and four digits
IsZipCode(cs) ==
  \/ Len(cs) = 5 /\ \A i \in 1..5 : cs[i] \in Digits
  \/ /\ Len(cs) = 10
     /\ cs[6] = "-"
     /\ \A i \in (1..5) \cup (7..10) : cs[i] \in Digits

\* C20: when the text submitted in the search box is a ZIP code, the
\* listing request carries zip = its first five digits and nothing else (no
\* q), and the response holds the dealers whose zip equals it, in store
\* order, with nothing scored.
ZipBypass ==
  (last.op = "goDealersSearch" /\ IsZipCode(args[1].s)) =>
    LET z == Str(SubSeq(args[1].s, 1, 5))
        hits == SelectSeq(dealers, LAMBDA d : d.zip = z)
    IN /\ last.ret.request.query
            = listingQuery(Undefined, Undefined, z, Undefined, Undefined)
       /\ last.ret.response.scored = <<>>
       /\ last.ret.response.dealers
            = [i \in 1..Len(hits) |-> toDealerDTO(hits[i])]

\* a ZIP+4 text whose first five digits are the zip of one seeded dealer
ZipBypassWitness ==
  /\ last.op = "goDealersSearch"
  /\ IsZipCode(args[1].s)
  /\ Len(args[1].s) = 10
  /\ Len(last.ret.response.dealers) = 1

(***************************************************************************)
(* Claims about concurrent requests (SpecAsync).                           *)
(***************************************************************************)
\* the requests of this handler answered with status 200
Succeeded(op) == {x \in log : x.op = op /\ x.status = 200}

\* C23: a password-reset token is single-use: at most one reset request that
\* presents a given token succeeds, also when the requests are processed
\* concurrently.
ResetTokenSingleUse ==
  \A x, y \in Succeeded("reset") : x.req.token = y.req.token => x.n = y.n

\* C24: usernames are unique ignoring case: after any interleaving of
\* registrations no two users in the store have names that are equal
\* case-insensitively.
UsernamesUnique ==
  \A i, j \in 1..Len(users) :
    toLowerCase(users[i].username) = toLowerCase(users[j].username) => i = j

(***************************************************************************)
(* Claims about the review handlers (SpecReviews).                         *)
(***************************************************************************)
\* the review with this id in a store (there is one)
ReviewOf(rs, id) == rs[CHOOSE i \in 1..Len(rs) : rs[i].id = id]

ReviewIdsOf(rs) == {rs[i].id : i \in 1..Len(rs)}

\* C25: a review's text and rating are changed only by a PUT from the user
\* whose id is the review's userId, and a review is removed only by a DELETE
\* from its author or an admin; any other authenticated caller is answered
\* Forbidden and the store stays as it is.
OnlyOwnerEditsOwnerOrAdminDeletes ==
  [][/\ \A id \in ReviewIdsOf(reviews) :
          LET rv == ReviewOf(reviews, id)
          IN /\ (/\ id \in ReviewIdsOf(reviews')
                 /\ \/ ReviewOf(reviews', id).review # rv.review
                    \/ ReviewOf(reviews', id).rating # rv.rating)
                  => /\ last'.op = "PUT /api/reviews/:id"
                     /\ args'[1].id = id
                     /\ args'[1].sub = rv.userId
             /\ id \notin ReviewIdsOf(reviews')
                  => /\ last'.op = "DELETE /api/reviews/:id"
                     /\ args'[1].id = id
                     /\ \/ args'[1].sub = rv.userId
                        \/ args'[1].role = "admin"
     /\ (/\ last'.op = "PUT /api/reviews/:id"
         /\ args'[1].sub # 0
         /\ args'[1].id \in ReviewIdsOf(reviews)
         /\ ReviewOf(reviews, args'[1].id).userId # args'[1].sub)
          => /\ last'.ret.error = "Forbidden"
             /\ reviews' = reviews
     /\ (/\ last'.op = "DELETE /api/reviews/:id"
         /\ args'[1].sub # 0
         /\ args'[1].id \in ReviewIdsOf(reviews)
         /\ ReviewOf(reviews, args'[1].id).userId # args'[1].sub
         /\ args'[1].role # "admin")
          => /\ last'.ret.error = "Forbidden"
             /\ reviews' = reviews]_vars

\* a registered user who is neither the author nor an admin has been refused
\* the deletion of a seeded review
OnlyOwnerEditsOwnerOrAdminDeletesWitness ==
  /\ last.op = "DELETE /api/reviews/:id"
  /\ last.ret.error = "Forbidden"
  /\ args[1].sub \notin {0, 1, DemoUserId}
  /\ args[1].id \in ReviewIdsOf(reviews)

\* the rating of a body is absent, zero or not numeric
NoRating(rating) ==
  rating.t = "undefined" \/ Number(rating) \in {NaN, Num(0)}

\* C26: a POST of a review whose rating is absent, zero or not numeric is
\* answered "Rating required" and adds nothing to the store.
RatingRequired ==
  (/\ last.op = "POST /api/dealers/:id/reviews"
   /\ last.ret.error \notin {"Unauthorized", "Not found",
                             "Review text required"}
   /\ NoRating(args[1].rating))
    => /\ last.ret.error = "Rating required"
       /\ uuids \notin ReviewIdsOf(reviews)

\* C27: every review in the store has a non-empty trimmed text after any
\* sequence of POSTs and PUTs.
ReviewTextNeverEmpty ==
  \A i \in 1..Len(reviews) : trim(reviews[i].review) # <<>>

(***************************************************************************)
(* Claims about the paged reviews (SpecPaging).                            *)
(***************************************************************************)
\* the detail view has loaded pages with a numeric limit; the store is as it
\* was when the first page was fetched
IsWalk ==
  /\ last.op = "loadPage"
  /\ parseInt(args[1].limit.s) # NaN

\* C28: fetching page 1 and following nextPage returns the dealer's reviews
\* newest first, each once, and nextPage is null exactly when the page with
\* the last review has been returned.
PagedWalkReturnsAll ==
  IsWalk =>
    LET all == reviewsOf(args[1].id)
        shown == last.ret.shown
        rest == {i \in 1..Len(all) :
                   \A j \in 1..Len(shown) : shown[j] # all[i]}
    IN /\ \A i, j \in 1..Len(shown) :
            /\ i < j => shown[i].time >= shown[j].time
            /\ shown[i].id = shown[j].id => i = j
       /\ \A j \in 1..Len(shown) :
            /\ \E i \in 1..Len(all) : all[i] = shown[j]
            /\ \A i \in rest : shown[j].time >= all[i].time
       /\ all # <<>> => (last.ret.nextPage = Null <=> rest = {})

\* a walk of four pages of two has returned the reviews of the first dealer,
\* two of them with the same time stamp, after an edit and a new review
PagedWalkReturnsAllWitness ==
  /\ IsWalk
  /\ args[1].limit = Str(<<"2">>)
  /\ last.ret.nextPage = Null
  /\ Len(last.ret.shown) = 7
  /\ last.ret.shown[1].time = last.ret.shown[2].time
  /\ last.ret.shown[2].rating = 2

(***************************************************************************)
(* Claims about the client's search box (SpecDropdown, SpecClient).        *)
(***************************************************************************)
\* C29: after a hashchange has hidden the dropdown it is not shown again
\* until the user types in the search input, whatever request completes in
\* between.
DropdownStaysClosed == dd.show => dd.typed

\* C30: for every state, typed as its code or its name, and every city text,
\* each of "City, ST", "City, State", "City ST" and "City State" is parsed
\* into the title-cased city and the state's code, not into a free text.
ParsesCityAndState ==
  last.op = "parseSearchQuery" =>
    \A c \in CityTexts, sep \in {<<",", " ">>, <<" ">>},
       e \in STATE_NAME_TO_CODE :
      \A tok \in StateTokens(e) :
        args[1] = Str(c \o sep \o tok) =>
          last.ret = Parsed(Undefined, Str(toTitleCase(Str(c))), Str(e.code),
                            Undefined)

====
